---- MODULE Spec2Model ----
(***************************************************************************)
(* WifiShare: the relay desktop server (electron/server/websocket) and the *)
(* chunked transfer service (services/fileTransferService), as state       *)
(* machines.                                                               *)
(***************************************************************************)
EXTENDS Integers, Sequences, FiniteSets, TLC

(***************************************************************************)
(* Bounds of the model                                                     *)
(***************************************************************************)
\* number of socket connections the relay server sees at one time
MaxClients == 2
\* largest totalChunks a file-start announces; chunk indices go one beyond
MaxChunks == 2
\* number of files written to the downloads folder in one behaviour
MaxSaved == 1
\* number of shareFile calls in one behaviour
MaxShared == 1
\* largest file the transfer service accepts (the scaled maxSizeBytes); files one
\* byte longer are offered too
MaxFileSize == 3
\* largest configured chunk size
MaxChunkSize == 2
\* largest byte value
MaxByte == 1
\* largest chunk index a peer names in a chunk or an acknowledgement
MaxIndex == 1
\* failed acknowledgements in a row that one chunk index is given
MaxFailStreak == 4
\* inputs of the chunk plan checked on its own
MaxPlanFileSize == 12
MaxPlanChunkSize == 5
\* messages a data channel holds unsent at one time
MaxQueued == 3
\* sockets the session registry accepts in one behaviour
MaxSockets == 2
\* largest file the web client uploads
MaxUploadSize == 5
\* sockets the page of the web client opens in one behaviour
MaxWcSockets == 3

\* files of one sendFiles call, and calls of sendFiles
MaxPeerFiles == 2

MaxSendCalls == 2

\* error values kept in the log of the errors produced
MaxErrors == 2

\* largest file FILE_VALIDATION_CONFIG admits where validation is checked
MaxValidSize == 2

\* the SIGNALING_CONFIG.maxRequestsPerSecond of the model (scaled)
MaxRequests == 3
\* the last tick of the clock of the signaling service
MaxSigNow == 3
\* ICE candidates one session collects
MaxCandidates == 2
\* timers setTimeout(poll, ...) creates in one behaviour
MaxPolls == 3

(***************************************************************************)
(* Maps (JavaScript Map) as functions with a finite domain                 *)
(***************************************************************************)
EmptyMap == [k \in {} |-> {}]

MapSet(m, k, v) == [x \in (DOMAIN m) \cup {k} |-> IF x = k THEN v ELSE m[x]]

MapDelete(m, k) == [x \in (DOMAIN m) \ {k} |-> m[x]]

(***************************************************************************)
(* JavaScript arrays with holes: a slot is {} (a hole) or {value}          *)
(***************************************************************************)
Hole == {}

Filled(v) == {v}

\* new Array(n)
NewArray(n) == [i \in 1..n |-> Hole]

\* a.push(v): the value lands behind what arrived before, whatever its index
ArrayPush(a, i, v) == Append(a, Filled(v))

\* a[i] = v for a 0-based index i; the array grows, with holes, up to i
ArraySet(a, i, v) ==
    [j \in 1..(IF i + 1 > Len(a) THEN i + 1 ELSE Len(a)) |->
        IF j = i + 1 THEN Filled(v) ELSE IF j <= Len(a) THEN a[j] ELSE Hole]

RECURSIVE ConcatFilledLastFirst(_)
\* the filled slots concatenated from the last index down
ConcatFilledLastFirst(a) ==
    IF Len(a) = 0 THEN <<>>
    ELSE LET rest == ConcatFilledLastFirst(Tail(a))
         IN IF Head(a) = Hole THEN rest
            ELSE rest \o (CHOOSE v \in Head(a) : TRUE)

RECURSIVE ConcatFilled(_)
\* Buffer.concat(chunks.filter(Boolean)): the filled slots, in index order
ConcatFilled(a) ==
    IF Len(a) = 0 THEN <<>>
    ELSE LET rest == ConcatFilled(Tail(a))
         IN IF Head(a) = Hole THEN rest
            ELSE (CHOOSE v \in Head(a) : TRUE) \o rest

(***************************************************************************)
(* Relay desktop server: state                                             *)
(***************************************************************************)
VARIABLES
    clients,        \* clientId -> [authenticated, readyState]: every socket whose
                    \* handlers are still attached (until its 'close' event)
    pendingFiles,   \* fileId -> [name, size, chunks, receivedChunks, totalChunks],
                    \* and as history (the code keeps no such field) owner: the
                    \* client whose file-start created the entry
    sharedFiles,    \* fileId -> [name, path]
    savedFiles,     \* the files written to the downloads folder, oldest first
    sent,           \* what the last step handed to ws.send: <<[to, msg], ...>>
    notified,       \* the notifyMainWindow calls of the last step
    lastEvt         \* the event the last step handled

relayVars == <<clients, pendingFiles, sharedFiles, savedFiles, sent, notified, lastEvt>>

(***************************************************************************)
(* FileTransferService: state                                              *)
(***************************************************************************)
VARIABLES
    config,            \* TRANSFER_CONFIG / FILE_VALIDATION_CONFIG
    activeTransfers,   \* transferId -> TransferContext
    receivingBuffers,  \* transferId -> ArrayBuffer[] (with holes)
    ret,               \* the last call of the service and what it returned
    ackedOnce,         \* history: transferId -> indices acknowledged with success
    failStreak,        \* history: transferId -> index -> failed acks of the index
                       \* since the transfer was prepared or the index last
                       \* acknowledged with success
    cancelled,         \* history: the ids whose context and buffer a
                       \* cancelTransfer dropped, until the id is used again
    pc                 \* position of the round-trip driver ("free": no driver)

ftsVars ==
    <<config, activeTransfers, receivingBuffers, ret, ackedOnce, failStreak, cancelled, pc>>

(***************************************************************************)
(* The chunk plan on its own: state                                        *)
(***************************************************************************)
VARIABLES
    planIn,            \* [fileSize, chunkSize]
    planOut            \* the plan computed for planIn, <<>> before

planVars == <<planIn, planOut>>

(***************************************************************************)
(* WebRTCService: state                                                    *)
(***************************************************************************)
VARIABLES
    connection,        \* this.connection with its data channel: [exists, hasChannel,
                       \* readyState, bufferedAmount, queued (the byte lengths of
                       \* the messages the channel has not sent yet)]
    rtcRet,            \* the last call of send and what it returned
    rtc                \* the connection attempts of the service: the position of
                       \* each createOffer / handleOffer call, the peer connection
                       \* this.connection holds and its state, the two timer fields
                       \* and the timers that are armed, and what the last step told
                       \* onStateChange and onError (log) from which state (was)

rtcVars == <<connection, rtcRet, rtc>>

\* the createOffer / handleOffer calls of a run
MaxAttempts == 2

Attempts == 1..MaxAttempts

\* no call made, this.connection = null, both timer fields null
NoRtc ==
    [calls |-> [a \in Attempts |-> [kind |-> "none", at |-> "none"]],
     current |-> 0, state |-> "IDLE",
     connectionTimeout |-> 0, timeouts |-> {},
     iceGatheringTimeout |-> 0, iceTimers |-> {},
     alive |-> {}, closing |-> {},
     was |-> "IDLE", log |-> <<>>, reached |-> {}]

\* this.connection = null
NoConnection ==
    [exists |-> FALSE, hasChannel |-> FALSE, readyState |-> "closed", bufferedAmount |-> 0,
     queued |-> <<>>]

NoRtcRet ==
    [op |-> "", size |-> 0, handed |-> FALSE, success |-> TRUE, code |-> "",
     recoverable |-> FALSE]

RtcOff ==
    /\ connection = NoConnection
    /\ rtcRet = NoRtcRet
    /\ rtc = NoRtc

(***************************************************************************)
(* Session registry (the signaling server of the Vite plugin): state       *)
(***************************************************************************)
VARIABLES
    sessions,          \* code -> Session: [code, sender, receiver, files, createdAt];
                       \* a socket is named by its number, null is 0
    sockets,           \* socket -> [readyState, currentSession, role]: the sockets
                       \* the server has accepted, with the two variables of their
                       \* connection handler ("" is null)
    now,               \* Date.now(), the time the registry's events happen at
    regSent,           \* what the last step handed to ws.send: <<[to, type, code, files], ...>>
    regEvt             \* the event the last step handled

regVars == <<sessions, sockets, now, regSent, regEvt>>

NoRegEvt == [kind |-> "", socket |-> 0, type |-> "", code |-> "", hasCode |-> FALSE]

RegOff ==
    /\ sessions = EmptyMap
    /\ sockets = EmptyMap
    /\ now = 0
    /\ regSent = <<>>
    /\ regEvt = NoRegEvt

(***************************************************************************)
(* Web client (pages/WebClient): state of one upload                       *)
(***************************************************************************)
VARIABLES
    upload             \* sendFile and the page around it: [pc, file, chunkSize, fileId,
                       \* chunkIndex, completedTransfers]

uploadVars == <<upload>>

NoUpload ==
    [pc |-> "off", file |-> <<>>, chunkSize |-> 1, fileId |-> "", chunkIndex |-> 0,
     completedTransfers |-> <<>>]

UploadOff == upload = NoUpload

(***************************************************************************)
(* Web client (pages/WebClient): the connection of the page                *)
(***************************************************************************)
VARIABLES
    sessionCode,        \* searchParams.get('code') || ''
    connectionState,    \* the React state, as of the last setConnectionState
    connectionStateRef, \* connectionStateRef.current: follows connectionState when
                        \* the effect of lines 52-54 has run
    ws,                 \* the socket of the last connect(): [n (sockets created so
                        \* far), readyState, authSent (the code sent with 'auth'),
                        \* replied (the server's answer to it)]
    reconnectTimeout,   \* a reconnect timer is pending
    pingInterval,       \* the ping interval is set
    everConnected,      \* history: the page has been 'connected'
    wcEvt               \* the event the last step handled: [kind, type]

wcVars ==
    <<sessionCode, connectionState, connectionStateRef, ws, reconnectTimeout, pingInterval,
      everConnected, wcEvt>>

NoSocket == [n |-> 0, readyState |-> "NONE", authSent |-> "", replied |-> ""]

NoWcEvt == [kind |-> "", type |-> ""]

\* the page before its effects have run
WcUnmounted ==
    /\ connectionState = "connecting"
    /\ connectionStateRef = "connecting"
    /\ ws = NoSocket
    /\ reconnectTimeout = FALSE
    /\ pingInterval = FALSE
    /\ everConnected = FALSE
    /\ wcEvt = NoWcEvt

WcOff == sessionCode = "" /\ WcUnmounted

(***************************************************************************)
(* PeerService (services/peerService): sendFiles and its acknowledgement   *)
(***************************************************************************)
VARIABLES
    peerConnection,      \* this.connection: "null", "pending" (set, not open), "open"
    transferAckResolver, \* this.transferAckResolver is set
    sendCall,            \* the last call of sendFiles: [pc, n (calls so far), files,
                         \* fileIndex]
    ackTimers,           \* the calls whose 5 s timer is pending
    toPeer,              \* messages sent to the remote peer, not handled yet: [type,
                         \* call]; call is history (the messages carry no such
                         \* field): the call of sendFiles that sent the message
    fromPeer,            \* messages of the remote peer, not handled yet; the call of
                         \* a transfer-ack is that of the transfer-end it answers
    peerEvt,             \* the event the last step handled: [kind, n]
    direct               \* one sender, the receiver and the channel between them,
                         \* message by message: the position of sendFiles in its
                         \* loops, the messages it emitted, the channel, and the
                         \* receiver's receivingFiles, this.connection and callbacks

peerVars ==
    <<peerConnection, transferAckResolver, sendCall, ackTimers, toPeer, fromPeer, peerEvt,
      direct>>

\* nothing connected, no call of sendFiles made, receivingFiles empty
NoDirect ==
    [pc |-> "idle", n |-> 0, files |-> <<>>, fileIndex |-> 0, chunkIndex |-> 0,
     emitted |-> <<>>, senderConn |-> "null", channel |-> <<>>, acks |-> 0,
     receiverConn |-> "null", receivingFiles |-> EmptyMap, events |-> <<>>,
     last |-> [kind |-> "", stored |-> FALSE, acked |-> 0]]

NoSendCall == [pc |-> "idle", n |-> 0, files |-> 0, fileIndex |-> 0]

PeerEvt(kind, n) == [kind |-> kind, n |-> n]

PeerOff ==
    /\ peerConnection = "null"
    /\ transferAckResolver = FALSE
    /\ sendCall = NoSendCall
    /\ ackTimers = {}
    /\ toPeer = <<>>
    /\ fromPeer = <<>>
    /\ peerEvt = PeerEvt("", 0)
    /\ direct = NoDirect

(***************************************************************************)
(* TransferError values (types/index): the errors the services produce     *)
(***************************************************************************)
VARIABLE
    errors  \* the error values produced so far, oldest first:
            \* [service, line (of the call of createError), code, recoverable]

(***************************************************************************)
(* SignalingService (services/signalingService): state                     *)
(***************************************************************************)
VARIABLE
    signaling   \* the sessions Map, the rate limiter and Date.now(), the polling
                \* timer field with the timers that are armed and currentBackoff,
                \* what the last call returned (ret) and told onMessage
                \* (delivered), and history: the times of the operations the rate
                \* limit accepted in the second that ends now, and whether
                \* stopPolling has been called since the last startPolling
                \* (stopped) with what happened after it

\* sessionId of the signaling session
SigSessionId == "s1"

\* no session, no request made, not polling
NoSignaling ==
    [sessions |-> EmptyMap, requests |-> <<>>, now |-> 0, accepted |-> <<>>,
     ret |-> [op |-> "", code |-> ""],
     pollingInterval |-> 0, timers |-> {}, handles |-> 0, currentBackoff |-> 0,
     isInitiator |-> FALSE, delivered |-> <<>>,
     stopped |-> FALSE, lateMessage |-> FALSE, lateTimer |-> FALSE]

\* the errors produced, with the service that keeps no connection of its own
errVars == <<errors, signaling>>

ErrorsOff == errors = <<>> /\ signaling = NoSignaling

\* the state of the services a specification leaves alone
moreVars == <<rtcVars, regVars, uploadVars, wcVars, peerVars, errVars>>

MoreOff == RtcOff /\ RegOff /\ UploadOff /\ WcOff /\ PeerOff /\ ErrorsOff

vars == <<relayVars, ftsVars, planVars, moreVars>>

ClientIds == 1..MaxClients

\* the session code the server was set up with, and codes a client may present
validSessionCode == "AB3XYZ"

SessionCodes == {"AB3XYZ", "ab3xyz", "ZZ9ZZ9"}

FileIds == {"f1"}

FileNames == {"a.txt"}

\* base64 payloads a client may send, with what Buffer.from(data, 'base64') yields
Base64Data == {"QQ==", "Qg==", "QUE=", "QUI=", "QkE=", "QkI="}

DecodeBase64(data) ==
    CASE data = "QQ==" -> <<65>>
      [] data = "Qg==" -> <<66>>
      [] data = "QUE=" -> <<65, 65>>
      [] data = "QUI=" -> <<65, 66>>
      [] data = "QkE=" -> <<66, 65>>
      [] data = "QkI=" -> <<66, 66>>
      [] OTHER -> <<>>

\* the parsed messages whose chunks carry a payload of D: absent fields are ""
\* (strings) or 0 (numbers), both falsy
MessagesWith(D) ==
    [type : {"auth"}, sessionCode : SessionCodes \cup {""},
     fileId : {""}, fileName : {""}, fileSize : {0}, totalChunks : {0},
     chunkIndex : {0}, data : {""}]
    \cup
    [type : {"file-start"}, sessionCode : {""},
     fileId : FileIds \cup {""}, fileName : FileNames, fileSize : {0, 2},
     totalChunks : 0..MaxChunks, chunkIndex : {0}, data : {""}]
    \cup
    [type : {"file-chunk"}, sessionCode : {""},
     fileId : FileIds, fileName : {""}, fileSize : {0}, totalChunks : {0},
     chunkIndex : 0..MaxChunks, data : D \cup {""}]
    \cup
    [type : {"file-end", "file-request"}, sessionCode : {""},
     fileId : FileIds, fileName : {""}, fileSize : {0}, totalChunks : {0},
     chunkIndex : {0}, data : {""}]
    \cup
    [type : {"ping", "unknown"}, sessionCode : {""},
     fileId : {""}, fileName : {""}, fileSize : {0}, totalChunks : {0},
     chunkIndex : {0}, data : {""}]

Messages == MessagesWith({"QQ=="})

NoMessage ==
    [type |-> "", sessionCode |-> "", fileId |-> "", fileName |-> "", fileSize |-> 0,
     totalChunks |-> 0, chunkIndex |-> 0, data |-> ""]

\* an event, with what the client object held when the event arrived
Evt(kind, c, m) ==
    [kind |-> kind, client |-> c, type |-> m.type, sessionCode |-> m.sessionCode,
     wasAuthenticated |-> IF c \in DOMAIN clients THEN clients[c].authenticated ELSE FALSE,
     wasState |-> IF c \in DOMAIN clients THEN clients[c].readyState ELSE "NONE"]

\* a message handed to ws.send
Msg(type, fileId, text, index, files, name) ==
    [type |-> type, fileId |-> fileId, text |-> text, index |-> index,
     files |-> files, name |-> name]

\* a file name: the name announced, and the " (n)" suffixes added on conflicts
Name(base) == [base |-> base, suffix |-> <<>>]

NoName == Name("")

ErrorMsg(text) == Msg("error", "", text, 0, {}, NoName)

\* a notifyMainWindow call
Notice(event, c, name, percent) ==
    [event |-> event, client |-> c, name |-> name, percent |-> percent]

\* send(ws, data): only an OPEN socket is written to
Send(c, msg) ==
    IF clients[c].readyState = "OPEN" THEN <<[to |-> c, msg |-> msg]>> ELSE <<>>

sendError(c, text) == Send(c, ErrorMsg(text))

AvailableFiles == {[id |-> id, name |-> sharedFiles[id].name] : id \in DOMAIN sharedFiles}

\* Math.round((receivedChunks / totalChunks) * 100)
Percent(received, total) == (200 * received + total) \div (2 * total)

(***************************************************************************)
(* FileTransferService: values                                             *)
(***************************************************************************)
Byte == 0..MaxByte

\* the byte sequences (ArrayBuffer contents) of at most n bytes
ByteSeqs(n) == UNION {[1..k -> Byte] : k \in 0..n}

TransferIds == {"t1"}

\* TRANSFER_CONFIG.maxRetries
maxRetries == 3

RECURSIVE computeChecksum(_)
\* the SHA-256 digest of a byte sequence, as a number: distinct byte sequences
\* have distinct digests (bijective numeration in base MaxByte + 2), and a
\* digest is not the data
computeChecksum(data) ==
    IF Len(data) = 0 THEN 0
    ELSE (MaxByte + 2) * computeChecksum(SubSeq(data, 1, Len(data) - 1))
         + data[Len(data)] + 1

computeChunkChecksum(chunk) == computeChecksum(chunk)

\* Math.ceil(a / b)
Ceil(a, b) == (a + b - 1) \div b

Min(a, b) == IF a < b THEN a ELSE b

\* the loop of prepareTransfer with end = start + chunkSize (no Math.min)
ChunkPlanNoMin(fileSize, chunkSize) ==
    [k \in 1..Ceil(fileSize, chunkSize) |->
        [index |-> k - 1, start |-> (k - 1) * chunkSize,
         end |-> (k - 1) * chunkSize + chunkSize, size |-> chunkSize]]

\* the loop of prepareTransfer that builds chunks: ChunkInfo[]
ChunkPlan(fileSize, chunkSize) ==
    [k \in 1..Ceil(fileSize, chunkSize) |->
        LET start == (k - 1) * chunkSize
            end == Min(start + chunkSize, fileSize)
        IN [index |-> k - 1, start |-> start, end |-> end, size |-> end - start]]

\* file.slice(start, end)
Slice(data, start, end) == SubSeq(data, start + 1, Min(end, Len(data)))

\* the shipped allow-list, reduced to one exact type and the fallback type
ShippedMimeTypes == {"image/png", "application/octet-stream"}

\* `${type}/*` for the part of a MIME type before the slash
Wildcard(mimeType) ==
    CASE mimeType = "image/png" -> "image/*"
      [] mimeType = "application/octet-stream" -> "application/*"
      [] mimeType = "application/x-foo" -> "application/*"
      [] mimeType = "image/gif" -> "image/*"
      [] OTHER -> "/*"

isAllowedMimeType(mimeType) ==
    \/ "application/octet-stream" \in config.allowedMimeTypes
    \/ mimeType \in config.allowedMimeTypes
    \/ \E allowed \in config.allowedMimeTypes : allowed = Wildcard(mimeType)

\* the File objects offered to the service
Files == [data : ByteSeqs(MaxFileSize + 1), type : {"image/png"}]

\* Result<T, TransferError>
Ok(data) == [success |-> TRUE, data |-> data, code |-> ""]

Err(code) == [success |-> FALSE, data |-> <<>>, code |-> code]

\* an async function that rejects (an exception thrown inside it)
Throws(what) == [success |-> FALSE, data |-> <<>>, code |-> what]

validateFile(file) ==
    IF Len(file.data) > config.maxSizeBytes THEN Err("FILE_TOO_LARGE")
    ELSE LET mimeType == IF file.type = "" THEN "application/octet-stream" ELSE file.type
         IN IF ~isAllowedMimeType(mimeType) THEN Err("INVALID_FILE_TYPE")
            ELSE Ok([size |-> Len(file.data), type |-> mimeType])

\* the record of a call: its arguments, how it ended and what it returned
Ret(op, id, arg, outcome, value) ==
    [op |-> op, id |-> id, arg |-> arg, outcome |-> outcome, value |-> value]

NoArg == [index |-> 0, success |-> FALSE, checksum |-> 0, size |-> 0, data |-> <<>>]

NoRet == Ret("none", "", NoArg, "return", Ok(<<>>))

(***************************************************************************)
(* FileTransferService: operations                                         *)
(***************************************************************************)
FtsIdle ==
    /\ activeTransfers = EmptyMap
    /\ receivingBuffers = EmptyMap
    /\ ret = NoRet
    /\ ackedOnce = EmptyMap
    /\ failStreak = EmptyMap
    /\ cancelled = {}

Configs ==
    [chunkSizeBytes : 1..MaxChunkSize, maxRetries : {maxRetries},
     maxSizeBytes : {MaxFileSize}, allowedMimeTypes : {ShippedMimeTypes}]

\* a prepareTransfer that stores the context whatever validateFile returned
prepareTransferUnvalidated(id, file) ==
    LET validation == validateFile(file)
        checksum == computeChecksum(file.data)
    IN /\ id \notin DOMAIN activeTransfers
       /\ activeTransfers' = MapSet(activeTransfers, id,
              [file |-> file,
               metadata |-> [size |-> Len(file.data), type |-> file.type,
                             checksum |-> checksum],
               chunks |-> ChunkPlan(Len(file.data), config.chunkSizeBytes),
               currentChunk |-> 0,
               transferredBytes |-> 0,
               checksum |-> checksum,
               retryCount |-> EmptyMap])
       /\ ackedOnce' = MapSet(ackedOnce, id, {})
       /\ failStreak' = MapSet(failStreak, id, EmptyMap)
       /\ cancelled' = cancelled \ {id}
       /\ ret' = Ret("prepareTransfer", id, NoArg, "return",
                     IF validation.success THEN Ok(id) ELSE validation)
       /\ UNCHANGED receivingBuffers

prepareTransfer(id, file) ==
    LET validation == validateFile(file)
        chunkSize == config.chunkSizeBytes
        checksum == computeChecksum(file.data)
    IN IF ~validation.success
       THEN /\ ret' = Ret("prepareTransfer", "", NoArg, "return", validation)
            /\ UNCHANGED <<activeTransfers, receivingBuffers, ackedOnce, failStreak, cancelled>>
       ELSE /\ id \notin DOMAIN activeTransfers
            /\ activeTransfers' = MapSet(activeTransfers, id,
                   [file |-> file,
                    metadata |-> [size |-> validation.data.size,
                                  type |-> validation.data.type,
                                  checksum |-> checksum],
                    chunks |-> ChunkPlan(Len(file.data), chunkSize),
                    currentChunk |-> 0,
                    transferredBytes |-> 0,
                    checksum |-> checksum,
                    retryCount |-> EmptyMap])
            /\ ackedOnce' = MapSet(ackedOnce, id, {})
            /\ failStreak' = MapSet(failStreak, id, EmptyMap)
            /\ cancelled' = cancelled \ {id}
            /\ ret' = Ret("prepareTransfer", id, NoArg, "return", Ok(id))
            /\ UNCHANGED receivingBuffers

getNextChunk(id) ==
    /\ ret' = IF id \notin DOMAIN activeTransfers
              THEN Ret("getNextChunk", id, NoArg, "return", Err("UNKNOWN"))
              ELSE LET context == activeTransfers[id]
                   IN IF context.currentChunk >= Len(context.chunks)
                      THEN Ret("getNextChunk", id, NoArg, "return", Ok({}))
                      ELSE LET chunkInfo == context.chunks[context.currentChunk + 1]
                               buffer == Slice(context.file.data, chunkInfo.start, chunkInfo.end)
                           IN Ret("getNextChunk", id, NoArg, "return",
                                  Ok({[index |-> chunkInfo.index,
                                       data |-> buffer,
                                       checksum |-> computeChunkChecksum(buffer),
                                       isLast |-> context.currentChunk
                                                    = Len(context.chunks) - 1]}))
    /\ UNCHANGED <<activeTransfers, receivingBuffers, ackedOnce, failStreak, cancelled>>

\* context.retryCount.get(context.currentChunk) ?? 0: the counter of the chunk
\* at the cursor, whatever index the acknowledgement names
RetriesOfCursor(context, index) ==
    IF context.currentChunk \in DOMAIN context.retryCount
    THEN context.retryCount[context.currentChunk] ELSE 0

\* context.retryCount.get(ack.index) ?? 0
Retries(context, index) ==
    IF index \in DOMAIN context.retryCount THEN context.retryCount[index] ELSE 0

\* the limit tested with > instead of >=
RetriesExhaustedLate(retries) == retries > config.maxRetries

\* if (retries >= TRANSFER_CONFIG.maxRetries)
RetriesExhausted(retries) == retries >= config.maxRetries

Streak(id, index) ==
    IF id \in DOMAIN failStreak /\ index \in DOMAIN failStreak[id]
    THEN failStreak[id][index] ELSE 0

\* acknowledgeChunk counting a full chunkSizeBytes for every chunk, the last included
acknowledgeChunkFullSize(id, ack) ==
    LET arg == [NoArg EXCEPT !.index = ack.index, !.success = ack.success]
    IN IF id \notin DOMAIN activeTransfers
       THEN /\ ret' = Ret("acknowledgeChunk", id, arg, "return", Err("UNKNOWN"))
            /\ UNCHANGED <<activeTransfers, receivingBuffers, ackedOnce, failStreak, cancelled>>
       ELSE LET context == activeTransfers[id]
                retries == Retries(context, ack.index)
            IN IF ~ack.success
               THEN /\ failStreak' = [failStreak EXCEPT ![id] =
                                         MapSet(@, ack.index, Streak(id, ack.index) + 1)]
                    /\ IF RetriesExhausted(retries)
                       THEN /\ ret' = Ret("acknowledgeChunk", id, arg, "return",
                                          Err("CHECKSUM_MISMATCH"))
                            /\ UNCHANGED activeTransfers
                       ELSE /\ activeTransfers' = [activeTransfers EXCEPT ![id].retryCount =
                                                      MapSet(@, ack.index, retries + 1)]
                            /\ ret' = Ret("acknowledgeChunk", id, arg, "return", Ok(<<>>))
                    /\ UNCHANGED <<receivingBuffers, ackedOnce, cancelled>>
               ELSE IF context.currentChunk >= Len(context.chunks)
               \* chunkInfo is undefined: reading chunkInfo.size throws a TypeError
               THEN /\ ret' = Ret("acknowledgeChunk", id, arg, "throw", Throws("TypeError"))
                    /\ UNCHANGED <<activeTransfers, receivingBuffers, ackedOnce, failStreak, cancelled>>
               ELSE LET chunkInfo == context.chunks[context.currentChunk + 1]
                    IN /\ activeTransfers' = [activeTransfers EXCEPT ![id] =
                              [context EXCEPT
                                 !.transferredBytes = @ + config.chunkSizeBytes,
                                 !.currentChunk = @ + 1,
                                 !.retryCount = MapDelete(@, ack.index)]]
                       /\ ackedOnce' = [ackedOnce EXCEPT ![id] = @ \cup {ack.index}]
                       /\ failStreak' = [failStreak EXCEPT ![id] = MapDelete(@, ack.index)]
                       /\ ret' = Ret("acknowledgeChunk", id, arg, "return", Ok(<<>>))
                       /\ UNCHANGED <<receivingBuffers, cancelled>>

\* an acknowledgeChunk whose success branch reads chunkInfo?.size ?? 0: past
\* the last chunk nothing throws and the cursor moves on
acknowledgeChunkPastEnd(id, ack) ==
    LET arg == [NoArg EXCEPT !.index = ack.index, !.success = ack.success]
    IN IF id \notin DOMAIN activeTransfers
       THEN /\ ret' = Ret("acknowledgeChunk", id, arg, "return", Err("UNKNOWN"))
            /\ UNCHANGED <<activeTransfers, receivingBuffers, ackedOnce, failStreak, cancelled>>
       ELSE LET context == activeTransfers[id]
                retries == Retries(context, ack.index)
                size == IF context.currentChunk >= Len(context.chunks) THEN 0
                        ELSE context.chunks[context.currentChunk + 1].size
            IN IF ~ack.success
               THEN /\ failStreak' = [failStreak EXCEPT ![id] =
                                         MapSet(@, ack.index, Streak(id, ack.index) + 1)]
                    /\ IF RetriesExhausted(retries)
                       THEN /\ ret' = Ret("acknowledgeChunk", id, arg, "return",
                                          Err("CHECKSUM_MISMATCH"))
                            /\ UNCHANGED activeTransfers
                       ELSE /\ activeTransfers' = [activeTransfers EXCEPT ![id].retryCount =
                                                      MapSet(@, ack.index, retries + 1)]
                            /\ ret' = Ret("acknowledgeChunk", id, arg, "return", Ok(<<>>))
                    /\ UNCHANGED <<receivingBuffers, ackedOnce, cancelled>>
               ELSE /\ activeTransfers' = [activeTransfers EXCEPT ![id] =
                           [context EXCEPT
                              !.transferredBytes = @ + size,
                              !.currentChunk = @ + 1,
                              !.retryCount = MapDelete(@, ack.index)]]
                    /\ ackedOnce' = [ackedOnce EXCEPT ![id] = @ \cup {ack.index}]
                    /\ failStreak' = [failStreak EXCEPT ![id] = MapDelete(@, ack.index)]
                    /\ ret' = Ret("acknowledgeChunk", id, arg, "return", Ok(<<>>))
                    /\ UNCHANGED <<receivingBuffers, cancelled>>

acknowledgeChunk(id, ack) ==
    LET arg == [NoArg EXCEPT !.index = ack.index, !.success = ack.success]
    IN IF id \notin DOMAIN activeTransfers
       THEN /\ ret' = Ret("acknowledgeChunk", id, arg, "return", Err("UNKNOWN"))
            /\ UNCHANGED <<activeTransfers, receivingBuffers, ackedOnce, failStreak, cancelled>>
       ELSE LET context == activeTransfers[id]
                retries == Retries(context, ack.index)
            IN IF ~ack.success
               THEN /\ failStreak' = [failStreak EXCEPT ![id] =
                                         MapSet(@, ack.index, Streak(id, ack.index) + 1)]
                    /\ IF RetriesExhausted(retries)
                       THEN /\ ret' = Ret("acknowledgeChunk", id, arg, "return",
                                          Err("CHECKSUM_MISMATCH"))
                            /\ UNCHANGED activeTransfers
                       ELSE /\ activeTransfers' = [activeTransfers EXCEPT ![id].retryCount =
                                                      MapSet(@, ack.index, retries + 1)]
                            /\ ret' = Ret("acknowledgeChunk", id, arg, "return", Ok(<<>>))
                    /\ UNCHANGED <<receivingBuffers, ackedOnce, cancelled>>
               ELSE IF context.currentChunk >= Len(context.chunks)
               \* chunkInfo is undefined: reading chunkInfo.size throws a TypeError
               THEN /\ ret' = Ret("acknowledgeChunk", id, arg, "throw", Throws("TypeError"))
                    /\ UNCHANGED <<activeTransfers, receivingBuffers, ackedOnce, failStreak, cancelled>>
               ELSE LET chunkInfo == context.chunks[context.currentChunk + 1]
                    IN /\ activeTransfers' = [activeTransfers EXCEPT ![id] =
                              [context EXCEPT
                                 !.transferredBytes = @ + chunkInfo.size,
                                 !.currentChunk = @ + 1,
                                 !.retryCount = MapDelete(@, ack.index)]]
                       /\ ackedOnce' = [ackedOnce EXCEPT ![id] = @ \cup {ack.index}]
                       /\ failStreak' = [failStreak EXCEPT ![id] = MapDelete(@, ack.index)]
                       /\ ret' = Ret("acknowledgeChunk", id, arg, "return", Ok(<<>>))
                       /\ UNCHANGED <<receivingBuffers, cancelled>>

startReceiving(id, metadata) ==
    /\ receivingBuffers' = MapSet(receivingBuffers, id, <<>>)
    /\ ret' = Ret("startReceiving", id, [NoArg EXCEPT !.size = metadata.size],
                  "return", Ok(<<>>))
    /\ cancelled' = cancelled \ {id}
    /\ UNCHANGED <<activeTransfers, ackedOnce, failStreak>>

\* the chunk stored whatever the comparison of the checksums says
StoresChunkAlways(success) == TRUE

\* if (success) { buffer[chunk.index] = chunk.data; }
StoresChunk(success) == success

\* a chunk for an id without a buffer starts a buffer
BufferOfOrNew(id) ==
    IF id \in DOMAIN receivingBuffers THEN {receivingBuffers[id]} ELSE {<<>>}

\* this.receivingBuffers.get(transferId): {} when there is none
BufferOf(id) ==
    IF id \in DOMAIN receivingBuffers THEN {receivingBuffers[id]} ELSE {}

receiveChunk(id, chunk) ==
    LET arg == [NoArg EXCEPT !.index = chunk.index, !.checksum = chunk.checksum,
                             !.data = chunk.data]
    IN IF BufferOf(id) = {}
       THEN /\ ret' = Ret("receiveChunk", id, arg, "return",
                          [index |-> chunk.index, checksum |-> -1, success |-> FALSE])
            /\ UNCHANGED <<activeTransfers, receivingBuffers, ackedOnce, failStreak, cancelled>>
       ELSE LET buffer == CHOOSE b \in BufferOf(id) : TRUE
                computedChecksum == computeChunkChecksum(chunk.data)
                success == computedChecksum = chunk.checksum
            IN /\ receivingBuffers' =
                      IF StoresChunk(success)
                      THEN MapSet(receivingBuffers, id, ArraySet(buffer, chunk.index, chunk.data))
                      ELSE receivingBuffers
               /\ ret' = Ret("receiveChunk", id, arg, "return",
                             [index |-> chunk.index, checksum |-> computedChecksum,
                              success |-> success])
               /\ UNCHANGED <<activeTransfers, ackedOnce, failStreak, cancelled>>

HasHole(chunks) == \E i \in 1..Len(chunks) : chunks[i] = Hole

RECURSIVE CombineReversed(_)
\* the chunks concatenated last index first
CombineReversed(chunks) ==
    IF Len(chunks) = 0 THEN <<>>
    ELSE CombineReversed(Tail(chunks)) \o (CHOOSE v \in Head(chunks) : TRUE)

RECURSIVE Combine(_)
\* the for...of loop of completeReceiving over an array without holes:
\* combined.set(new Uint8Array(chunk), offset); offset += chunk.byteLength
Combine(chunks) ==
    IF Len(chunks) = 0 THEN <<>>
    ELSE (CHOOSE v \in Head(chunks) : TRUE) \o Combine(Tail(chunks))

\* this.receivingBuffers.delete(transferId), on both return paths
FreeBuffer(id, matches) == MapDelete(receivingBuffers, id)

completeReceiving(id, metadata, expectedChecksum) ==
    LET arg == [NoArg EXCEPT !.size = metadata.size, !.checksum = expectedChecksum]
    IN IF id \notin DOMAIN receivingBuffers
       THEN /\ ret' = Ret("completeReceiving", id, arg, "return", Err("UNKNOWN"))
            /\ UNCHANGED <<activeTransfers, receivingBuffers, ackedOnce, failStreak, cancelled>>
       ELSE LET chunks == receivingBuffers[id]
            IN IF HasHole(chunks)
               \* for...of yields undefined for a hole: chunk.byteLength throws a
               \* TypeError and the function rejects before any delete
               THEN /\ ret' = Ret("completeReceiving", id, arg, "throw", Throws("TypeError"))
                    /\ UNCHANGED <<activeTransfers, receivingBuffers, ackedOnce, failStreak, cancelled>>
               ELSE LET combined == Combine(chunks)
                        finalChecksum == computeChecksum(combined)
                        matches == finalChecksum = expectedChecksum
                    IN /\ receivingBuffers' = FreeBuffer(id, matches)
                       /\ ret' = Ret("completeReceiving", id, arg, "return",
                                     IF matches
                                     THEN Ok([bytes |-> combined, type |-> metadata.type])
                                     ELSE Err("CHECKSUM_MISMATCH"))
                       /\ UNCHANGED <<activeTransfers, ackedOnce, failStreak, cancelled>>

cancelTransfer(id) ==
    /\ activeTransfers' = MapDelete(activeTransfers, id)
    /\ receivingBuffers' = MapDelete(receivingBuffers, id)
    /\ ackedOnce' = MapDelete(ackedOnce, id)
    /\ failStreak' = MapDelete(failStreak, id)
    /\ cancelled' = IF id \in DOMAIN activeTransfers /\ id \in DOMAIN receivingBuffers
                    THEN cancelled \cup {id} ELSE cancelled
    /\ ret' = Ret("cancelTransfer", id, NoArg, "return", Ok(<<>>))

cleanup ==
    /\ activeTransfers' = EmptyMap
    /\ receivingBuffers' = EmptyMap
    /\ ackedOnce' = EmptyMap
    /\ failStreak' = EmptyMap
    /\ cancelled' = {}
    /\ ret' = Ret("cleanup", "", NoArg, "return", Ok(<<>>))

(***************************************************************************)
(* FileTransferService: any caller                                         *)
(***************************************************************************)
\* the chunks a peer may send: any bytes, with the right or a wrong checksum
ChunkInputs ==
    {[index |-> i, data |-> d,
      checksum |-> IF right THEN computeChecksum(d) ELSE computeChecksum(d \o <<0>>)] :
        i \in 0..MaxIndex, d \in ByteSeqs(MaxChunkSize), right \in BOOLEAN}

\* the files that start a sending side beside the receiving side
SmallFiles == {file \in Files : Len(file.data) <= 1}

AckInputs == [index : 0..MaxIndex, success : BOOLEAN]

MetadataInputs == [size : 0..MaxFileSize, type : {"image/png"}]

ChecksumInputs == {computeChecksum(d) : d \in ByteSeqs(MaxFileSize)}

FtsInit ==
    /\ config \in Configs
    /\ FtsIdle
    /\ pc = "free"

(***************************************************************************)
(* Relay desktop server: handlers                                          *)
(***************************************************************************)
RelayIdle ==
    /\ clients = EmptyMap
    /\ pendingFiles = EmptyMap
    /\ sharedFiles = EmptyMap
    /\ savedFiles = <<>>
    /\ sent = <<>>
    /\ notified = <<>>
    /\ lastEvt = Evt("none", 0, NoMessage)

FtsOff ==
    /\ config \in {c \in Configs : c.chunkSizeBytes = 1}
    /\ FtsIdle
    /\ pc = "free"

PlanOff ==
    /\ planIn = [fileSize |-> 1, chunkSize |-> 1]
    /\ planOut = <<>>

RelayInit == RelayIdle /\ FtsOff /\ PlanOff /\ MoreOff

\* wss.on('connection'): a new client object, not authenticated
OnConnection(c) ==
    /\ c \notin DOMAIN clients
    /\ lastEvt' = Evt("connection", c, NoMessage)
    /\ clients' = MapSet(clients, c, [authenticated |-> FALSE, readyState |-> "OPEN"])
    /\ sent' = <<>>
    /\ notified' = <<>>
    /\ UNCHANGED <<pendingFiles, sharedFiles, savedFiles>>

\* type === 'auth'
HandleAuth(c, m) ==
    IF m.sessionCode = validSessionCode
    THEN /\ clients' = [clients EXCEPT ![c].authenticated = TRUE]
         /\ sent' = Send(c, Msg("auth-success", "", "", 0, {}, NoName))
                     \o Send(c, Msg("available-files", "", "", 0, AvailableFiles, NoName))
         /\ notified' = <<Notice("client-connected", c, NoName, 0)>>
         /\ UNCHANGED <<pendingFiles, sharedFiles, savedFiles>>
    ELSE /\ sent' = Send(c, Msg("auth-failed", "", "Invalid session code", 0, {}, NoName))
         \* client.ws.close(): the closing handshake starts, handlers stay attached
         /\ clients' = [clients EXCEPT ![c].readyState =
                            IF @ = "OPEN" THEN "CLOSING" ELSE @]
         /\ notified' = <<>>
         /\ UNCHANGED <<pendingFiles, sharedFiles, savedFiles>>

\* the check left out: every message type is dispatched
RequiresAuthNever(c) == FALSE

\* if (!client.authenticated) { sendError(client.ws, 'Not authenticated'); return; }
RequiresAuth(c) == ~clients[c].authenticated

RejectUnauthenticated(c) ==
    /\ sent' = sendError(c, "Not authenticated")
    /\ notified' = <<>>
    /\ UNCHANGED <<clients, pendingFiles, sharedFiles, savedFiles>>

handleFileStart(c, m) ==
    IF m.fileId = "" \/ m.fileName = "" \/ m.fileSize = 0 \/ m.totalChunks = 0
    THEN /\ sent' = sendError(c, "Invalid file-start payload")
         /\ notified' = <<>>
         /\ UNCHANGED <<clients, pendingFiles, sharedFiles, savedFiles>>
    ELSE /\ pendingFiles' = MapSet(pendingFiles, m.fileId,
                [name |-> m.fileName, size |-> m.fileSize,
                 chunks |-> NewArray(m.totalChunks), receivedChunks |-> 0,
                 totalChunks |-> m.totalChunks, owner |-> c])
         /\ sent' = Send(c, Msg("file-start-ack", m.fileId, "", 0, {}, NoName))
         /\ notified' = <<>>
         /\ UNCHANGED <<clients, sharedFiles, savedFiles>>

handleFileChunk(c, m) ==
    IF m.data = ""
    THEN /\ sent' = sendError(c, "Invalid file-chunk payload")
         /\ notified' = <<>>
         /\ UNCHANGED <<clients, pendingFiles, sharedFiles, savedFiles>>
    ELSE IF m.fileId \notin DOMAIN pendingFiles
    THEN /\ sent' = sendError(c, "Unknown file ID")
         /\ notified' = <<>>
         /\ UNCHANGED <<clients, pendingFiles, sharedFiles, savedFiles>>
    ELSE LET pending == pendingFiles[m.fileId]
             received == pending.receivedChunks + 1
         IN /\ pendingFiles' = [pendingFiles EXCEPT ![m.fileId] =
                    [pending EXCEPT
                        !.chunks = ArraySet(pending.chunks, m.chunkIndex, DecodeBase64(m.data)),
                        !.receivedChunks = received]]
            /\ notified' = <<Notice("transfer-progress", c, Name(pending.name),
                                     Percent(received, pending.totalChunks))>>
            /\ sent' = Send(c, Msg("file-chunk-ack", m.fileId, "", m.chunkIndex, {}, NoName))
            /\ UNCHANGED <<clients, sharedFiles, savedFiles>>

ExistingNames == {savedFiles[i].name : i \in 1..Len(savedFiles)}

RECURSIVE FreeName(_, _)
\* the loop over fs.existsSync(filePath): each round appends " (counter)"
FreeName(name, counter) ==
    IF name \notin ExistingNames THEN name
    ELSE FreeName([name EXCEPT !.suffix = Append(@, counter)], counter + 1)

handleFileEnd(c, m) ==
    IF m.fileId \notin DOMAIN pendingFiles
    THEN /\ sent' = sendError(c, "Unknown file ID")
         /\ notified' = <<>>
         /\ UNCHANGED <<clients, pendingFiles, sharedFiles, savedFiles>>
    ELSE LET pending == pendingFiles[m.fileId]
             fileBuffer == ConcatFilled(pending.chunks)
             fileName == FreeName(Name(pending.name), 1)
         IN /\ savedFiles' = Append(savedFiles, [name |-> fileName, data |-> fileBuffer])
            /\ pendingFiles' = MapDelete(pendingFiles, m.fileId)
            /\ sent' = Send(c, Msg("file-complete", m.fileId, "", 0, {}, fileName))
            /\ notified' = <<Notice("file-received", c, fileName, 0)>>
            /\ UNCHANGED <<clients, sharedFiles>>

\* onDisk: what fs.existsSync(fileInfo.path) answers
handleFileRequest(c, m, onDisk) ==
    /\ sent' = IF m.fileId \notin DOMAIN sharedFiles \/ ~onDisk
               THEN sendError(c, "File not found")
               ELSE Send(c, Msg("file-ready", m.fileId, "/api/download/", 0, {},
                                Name(sharedFiles[m.fileId].name)))
    /\ notified' = <<>>
    /\ UNCHANGED <<clients, pendingFiles, sharedFiles, savedFiles>>

handlePing(c) ==
    /\ sent' = Send(c, Msg("pong", "", "", 0, {}, NoName))
    /\ notified' = <<>>
    /\ UNCHANGED <<clients, pendingFiles, sharedFiles, savedFiles>>

\* default: console.log only
handleUnknown ==
    /\ sent' = <<>>
    /\ notified' = <<>>
    /\ UNCHANGED <<clients, pendingFiles, sharedFiles, savedFiles>>

handleMessage(c, m) ==
    IF m.type = "auth" THEN HandleAuth(c, m)
    ELSE IF RequiresAuth(c) THEN RejectUnauthenticated(c)
    ELSE CASE m.type = "file-start" -> handleFileStart(c, m)
           [] m.type = "file-chunk" -> handleFileChunk(c, m)
           [] m.type = "file-end" -> handleFileEnd(c, m)
           [] m.type = "file-request" -> \E onDisk \in BOOLEAN : handleFileRequest(c, m, onDisk)
           [] m.type = "ping" -> handlePing(c)
           [] OTHER -> handleUnknown

\* the guards that keep the counters of the model finite
WithinBounds(c, m) ==
    /\ (m.type = "file-end" /\ clients[c].authenticated /\ m.fileId \in DOMAIN pendingFiles)
            => Len(savedFiles) < MaxSaved
    /\ (m.type = "file-chunk" /\ clients[c].authenticated /\ m.fileId \in DOMAIN pendingFiles)
            => pendingFiles[m.fileId].receivedChunks < MaxChunks

\* ws.on('message') with a message JSON.parse accepts: the 'message' event is
\* emitted for every frame that arrives before the 'close' event, also after
\* this side has called ws.close()
OnMessage(c, m) ==
    /\ c \in DOMAIN clients
    /\ WithinBounds(c, m)
    /\ lastEvt' = Evt("message", c, m)
    /\ handleMessage(c, m)

\* ws.on('message') with data JSON.parse (or the destructuring) throws on
OnMalformed(c) ==
    /\ c \in DOMAIN clients
    /\ lastEvt' = Evt("malformed", c, NoMessage)
    /\ sent' = sendError(c, "Invalid message format")
    /\ notified' = <<>>
    /\ UNCHANGED <<clients, pendingFiles, sharedFiles, savedFiles>>

\* ws.on('close')
OnClose(c) ==
    /\ c \in DOMAIN clients
    /\ lastEvt' = Evt("close", c, NoMessage)
    /\ clients' = MapDelete(clients, c)
    /\ notified' = <<Notice("client-disconnected", c, NoName, 0)>>
    /\ sent' = <<>>
    /\ UNCHANGED <<pendingFiles, sharedFiles, savedFiles>>

RECURSIVE SendAllClients(_, _)
\* the broadcast without the check of client.authenticated
SendAllClients(cs, msg) ==
    IF cs = {} THEN <<>>
    ELSE LET c == CHOOSE x \in cs : \A y \in cs : x <= y
         IN Send(c, msg) \o SendAllClients(cs \ {c}, msg)

RECURSIVE SendAll(_, _)
\* clients.forEach(client => { if (client.authenticated) send(...) })
SendAll(cs, msg) ==
    IF cs = {} THEN <<>>
    ELSE LET c == CHOOSE x \in cs : \A y \in cs : x <= y
         IN (IF clients[c].authenticated THEN Send(c, msg) ELSE <<>>)
            \o SendAll(cs \ {c}, msg)

\* shareFile(filePath), called by the desktop application
shareFile(id, name) ==
    /\ Cardinality(DOMAIN sharedFiles) < MaxShared
    /\ id \notin DOMAIN sharedFiles
    /\ lastEvt' = Evt("shareFile", 0, NoMessage)
    /\ sharedFiles' = MapSet(sharedFiles, id, [name |-> name, path |-> name])
    /\ sent' = SendAll(DOMAIN clients,
                       Msg("available-files", "", "", 0,
                           AvailableFiles \cup {[id |-> id, name |-> name]}, NoName))
    /\ notified' = <<>>
    /\ UNCHANGED <<clients, pendingFiles, savedFiles>>

RelayFrame == UNCHANGED <<ftsVars, planVars, moreVars>>

RelayNext ==
    \/ \E c \in ClientIds : OnConnection(c) /\ RelayFrame
    \/ \E c \in ClientIds, m \in Messages : OnMessage(c, m) /\ RelayFrame
    \/ \E c \in ClientIds : OnMalformed(c) /\ RelayFrame
    \/ \E c \in ClientIds : OnClose(c) /\ RelayFrame
    \/ \E id \in FileIds, name \in FileNames : shareFile(id, name) /\ RelayFrame

SpecRelay == RelayInit /\ [][RelayNext]_vars

(***************************************************************************)
(* FileTransferService: the specifications                                 *)
(***************************************************************************)
FtsFrame == UNCHANGED <<config, pc, relayVars, planVars, moreVars>>

\* the sending side under any caller
SenderNext ==
    \/ \E id \in TransferIds, file \in Files : prepareTransfer(id, file) /\ FtsFrame
    \/ \E id \in TransferIds : getNextChunk(id) /\ FtsFrame
    \/ \E id \in TransferIds, ack \in AckInputs :
          /\ Streak(id, ack.index) < MaxFailStreak
          /\ acknowledgeChunk(id, ack)
          /\ FtsFrame
    \/ \E id \in TransferIds : cancelTransfer(id) /\ FtsFrame
    \/ cleanup /\ FtsFrame

\* a service just constructed, beside an idle relay
ServiceInit == RelayIdle /\ FtsInit /\ PlanOff /\ MoreOff

SpecSender == ServiceInit /\ [][SenderNext]_vars

\* the receiving side under any peer, beside transfers prepared and cancelled
ReceiverNext ==
    \/ \E id \in TransferIds, file \in SmallFiles : prepareTransfer(id, file) /\ FtsFrame
    \/ \E id \in TransferIds, metadata \in MetadataInputs :
          startReceiving(id, metadata) /\ FtsFrame
    \/ \E id \in TransferIds, chunk \in ChunkInputs : receiveChunk(id, chunk) /\ FtsFrame
    \/ \E id \in TransferIds, metadata \in MetadataInputs, sum \in ChecksumInputs :
          completeReceiving(id, metadata, sum) /\ FtsFrame
    \/ \E id \in TransferIds : cancelTransfer(id) /\ FtsFrame
    \/ cleanup /\ FtsFrame

SpecReceiver == ServiceInit /\ [][ReceiverNext]_vars

\* one transfer from prepareTransfer to completeReceiving, the way a sender and
\* a receiver drive the service: every chunk getNextChunk returns is handed to
\* receiveChunk, and the ack receiveChunk returns to acknowledgeChunk
RoundTripId == "t1"

RoundTripFrame == UNCHANGED <<config, relayVars, planVars, moreVars>>

RoundTripInit ==
    /\ config \in Configs
    /\ FtsIdle
    /\ pc = "prepare"

RT_Prepare ==
    /\ pc = "prepare"
    /\ \E file \in Files : prepareTransfer(RoundTripId, file)
    /\ pc' = IF ret'.value.success THEN "start" ELSE "rejected"
    /\ RoundTripFrame

RT_Start ==
    /\ pc = "start"
    /\ startReceiving(RoundTripId, activeTransfers[RoundTripId].metadata)
    /\ pc' = "get"
    /\ RoundTripFrame

RT_GetNextChunk ==
    /\ pc = "get"
    /\ getNextChunk(RoundTripId)
    /\ pc' = IF ret'.value.data = {} THEN "complete" ELSE "receive"
    /\ RoundTripFrame

RT_ReceiveChunk ==
    /\ pc = "receive"
    /\ \E chunk \in ret.value.data :
          receiveChunk(RoundTripId, [index |-> chunk.index, data |-> chunk.data,
                                     checksum |-> chunk.checksum])
    /\ pc' = "ack"
    /\ RoundTripFrame

RT_AcknowledgeChunk ==
    /\ pc = "ack"
    /\ acknowledgeChunk(RoundTripId,
                        [index |-> ret.value.index, success |-> ret.value.success])
    /\ pc' = "get"
    /\ RoundTripFrame

RT_Complete ==
    /\ pc = "complete"
    /\ completeReceiving(RoundTripId, activeTransfers[RoundTripId].metadata,
                         activeTransfers[RoundTripId].checksum)
    /\ pc' = "done"
    /\ RoundTripFrame

RoundTripNext ==
    \/ RT_Prepare
    \/ RT_Start
    \/ RT_GetNextChunk
    \/ RT_ReceiveChunk
    \/ RT_AcknowledgeChunk
    \/ RT_Complete

RoundTripStart == RelayIdle /\ RoundTripInit /\ PlanOff /\ MoreOff

SpecRoundTrip == RoundTripStart /\ [][RoundTripNext]_vars

(***************************************************************************)
(* The chunk plan on its own                                               *)
(***************************************************************************)
PlanInit ==
    /\ planIn \in [fileSize : 1..MaxPlanFileSize, chunkSize : 1..MaxPlanChunkSize]
    /\ planOut = <<>>

ComputePlan ==
    /\ planOut = <<>>
    /\ planOut' = ChunkPlan(planIn.fileSize, planIn.chunkSize)
    /\ UNCHANGED <<planIn, relayVars, ftsVars, moreVars>>

PlanStart == RelayIdle /\ FtsOff /\ PlanInit /\ MoreOff

SpecPlan == PlanStart /\ [][ComputePlan]_vars

(***************************************************************************)
(* WebRTCService: the data channel and send                                *)
(***************************************************************************)
\* 16 * 1024 * 1024, the bufferedAmount above which send refuses
BackpressureLimit == 16777216

\* byte lengths of the data handed to send
DataSizes == {1, BackpressureLimit - 1, BackpressureLimit}

\* WebRTCService.createError: the code and the recoverable flag of the error
WebRTCService_createError(code) ==
    [code |-> code,
     recoverable |-> (code # "FILE_TOO_LARGE" /\ code # "INVALID_FILE_TYPE")]

\* the guard with >= in place of >
BufferFullAtLimit(bufferedAmount) == bufferedAmount >= BackpressureLimit

\* this.connection.dataChannel.bufferedAmount > 16 * 1024 * 1024
BufferFull(bufferedAmount) == bufferedAmount > BackpressureLimit

RtcErr(size, code) ==
    LET e == WebRTCService_createError(code)
    IN [op |-> "send", size |-> size, handed |-> FALSE, success |-> FALSE,
        code |-> e.code, recoverable |-> e.recoverable]

\* createOffer: cleanup(), then a connection with a data channel of its own
createOffer ==
    /\ connection' = [exists |-> TRUE, hasChannel |-> TRUE, readyState |-> "connecting",
                      bufferedAmount |-> 0, queued |-> <<>>]
    /\ rtcRet' = [NoRtcRet EXCEPT !.op = "createOffer"]

\* handleOffer: cleanup(), then a connection whose channel ondatachannel will set
handleOffer ==
    /\ connection' = [exists |-> TRUE, hasChannel |-> FALSE, readyState |-> "closed",
                      bufferedAmount |-> 0, queued |-> <<>>]
    /\ rtcRet' = [NoRtcRet EXCEPT !.op = "handleOffer"]

\* peerConnection.ondatachannel
OnDataChannel ==
    /\ connection.exists
    /\ ~connection.hasChannel
    /\ connection' = [connection EXCEPT !.hasChannel = TRUE, !.readyState = "connecting"]
    /\ rtcRet' = [NoRtcRet EXCEPT !.op = "ondatachannel"]

\* the channel opens
OnChannelOpen ==
    /\ connection.hasChannel
    /\ connection.readyState = "connecting"
    /\ connection' = [connection EXCEPT !.readyState = "open"]
    /\ rtcRet' = [NoRtcRet EXCEPT !.op = "onopen"]

\* the channel is closed by the peer or the transport
OnChannelClose ==
    /\ connection.hasChannel
    /\ connection.readyState \in {"connecting", "open"}
    /\ connection' = [connection EXCEPT !.readyState = "closed"]
    /\ rtcRet' = [NoRtcRet EXCEPT !.op = "onclose"]

\* the transport sends the oldest queued message: bufferedAmount goes down
Drain ==
    /\ connection.hasChannel
    /\ connection.readyState = "open"
    /\ connection.queued # <<>>
    /\ connection' = [connection EXCEPT !.bufferedAmount = @ - Head(connection.queued),
                                         !.queued = Tail(@)]
    /\ rtcRet' = [NoRtcRet EXCEPT !.op = "drain"]

\* WebRTCService.send(data); channelThrows: dataChannel.send(data) throws
WebRTCService_send(size, channelThrows) ==
    IF ~(connection.exists /\ connection.hasChannel)
    THEN /\ rtcRet' = RtcErr(size, "CONNECTION_FAILED")
         /\ UNCHANGED connection
    ELSE IF connection.readyState # "open"
    THEN /\ rtcRet' = RtcErr(size, "CONNECTION_FAILED")
         /\ UNCHANGED connection
    ELSE IF BufferFull(connection.bufferedAmount)
    THEN /\ rtcRet' = RtcErr(size, "NETWORK_INTERRUPTED")
         /\ UNCHANGED connection
    ELSE IF channelThrows
    THEN /\ rtcRet' = [RtcErr(size, "NETWORK_INTERRUPTED") EXCEPT !.handed = TRUE]
         /\ UNCHANGED connection
    ELSE /\ connection' = [connection EXCEPT !.bufferedAmount = @ + size,
                                              !.queued = Append(@, size)]
         /\ rtcRet' = [op |-> "send", size |-> size, handed |-> TRUE, success |-> TRUE,
                       code |-> "", recoverable |-> FALSE]

\* WebRTCService.close(): cleanup()
WebRTCService_close ==
    /\ connection' = NoConnection
    /\ rtcRet' = [NoRtcRet EXCEPT !.op = "close"]

RtcFrame ==
    UNCHANGED <<relayVars, ftsVars, planVars, regVars, uploadVars, wcVars, peerVars, errVars,
                rtc>>

RtcInit ==
    /\ RelayIdle /\ FtsOff /\ PlanOff /\ RtcOff /\ RegOff /\ UploadOff /\ WcOff /\ PeerOff
    /\ ErrorsOff

RtcNext ==
    \/ createOffer /\ RtcFrame
    \/ handleOffer /\ RtcFrame
    \/ OnDataChannel /\ RtcFrame
    \/ OnChannelOpen /\ RtcFrame
    \/ OnChannelClose /\ RtcFrame
    \/ Drain /\ RtcFrame
    \/ \E size \in DataSizes, channelThrows \in BOOLEAN :
          /\ Len(connection.queued) < MaxQueued
          /\ WebRTCService_send(size, channelThrows) /\ RtcFrame
    \/ WebRTCService_close /\ RtcFrame

SpecRtc == RtcInit /\ [][RtcNext]_vars

(***************************************************************************)
(* Session registry: handlers                                              *)
(***************************************************************************)
SocketIds == 1..MaxSockets

\* codes generateCode() returns (two of the 32^6)
GeneratedCodes == {"AB3XYZ", "QRS234"}

\* codes a JOIN_SESSION carries
JoinCodes == {"AB3XYZ", "ab3xyz", "Ab3xyz", "QRS234", "ZZZZZZ"}

\* String.prototype.toUpperCase on the codes above
ToUpperCase(code) ==
    CASE code \in {"AB3XYZ", "ab3xyz", "Ab3xyz"} -> "AB3XYZ"
      [] code \in {"QRS234", "qrs234"} -> "QRS234"
      [] OTHER -> code

\* the file lists a SEND_FILES carries
FileLists == {<<[name |-> "a.txt", size |-> 2, type |-> "text/plain"]>>}

RegMessages ==
    [type : {"CREATE_SESSION", "ACCEPT_FILES", "FILE_CHUNK", "FILE_COMPLETE",
             "TRANSFER_COMPLETE", "CHUNK_ACK", "UNKNOWN"},
     code : {""}, hasCode : {FALSE}, files : {<<>>}]
    \cup [type : {"JOIN_SESSION"}, code : JoinCodes, hasCode : {TRUE}, files : {<<>>}]
    \cup [type : {"JOIN_SESSION"}, code : {""}, hasCode : {FALSE}, files : {<<>>}]
    \cup [type : {"SEND_FILES"}, code : {""}, hasCode : {FALSE}, files : FileLists]

RegEvt(kind, w, m) ==
    [kind |-> kind, socket |-> w, type |-> m.type, code |-> m.code, hasCode |-> m.hasCode]

RegMsg(to, type, code, files) == [to |-> to, type |-> type, code |-> code, files |-> files]

IsOpen(w) == w \in DOMAIN sockets /\ sockets[w].readyState = "OPEN"

\* peer.send(...) under if (peer && peer.readyState === WebSocket.OPEN)
SendIfOpen(w, type, code, files) ==
    IF w # 0 /\ IsOpen(w) THEN <<RegMsg(w, type, code, files)>> ELSE <<>>

\* the lookup that compares the code as it is written only
findSessionExact(code) ==
    IF code \in DOMAIN sessions THEN {code} ELSE {}

\* findSession(code): the key of the session found, {} for null
findSession(code) ==
    IF code \in DOMAIN sessions THEN {code}
    ELSE IF ToUpperCase(code) \in DOMAIN sessions THEN {ToUpperCase(code)}
    ELSE {}

\* currentSession ? sessions.get(currentSession) : null
CurrentSessionOf(w) ==
    IF sockets[w].currentSession # "" /\ sockets[w].currentSession \in DOMAIN sessions
    THEN {sockets[w].currentSession} ELSE {}

\* wss.on('connection'): the next socket, with currentSession = null, role = null
RegOnConnection(w) ==
    /\ w \notin DOMAIN sockets
    /\ \A v \in SocketIds : v < w => v \in DOMAIN sockets
    /\ sockets' = MapSet(sockets, w, [readyState |-> "OPEN", currentSession |-> "", role |-> ""])
    /\ regSent' = <<>>
    /\ regEvt' = [NoRegEvt EXCEPT !.kind = "connection", !.socket = w]
    /\ UNCHANGED <<sessions, now>>

\* case 'CREATE_SESSION'
CreateSession(w, m, code) ==
    /\ sessions' = MapSet(sessions, code,
                          [code |-> code, sender |-> 0, receiver |-> w, files |-> <<>>,
                           createdAt |-> now])
    /\ sockets' = [sockets EXCEPT ![w].currentSession = code, ![w].role = "receiver"]
    /\ regSent' = <<RegMsg(w, "SESSION_CREATED", code, <<>>)>>

\* case 'JOIN_SESSION'
JoinSession(w, m) ==
    IF ~m.hasCode
    \* findSession(undefined): undefined.toUpperCase() throws, the catch logs it
    THEN /\ regSent' = <<>>
         /\ UNCHANGED <<sessions, sockets>>
    ELSE IF findSession(m.code) = {}
    THEN /\ regSent' = <<RegMsg(w, "ERROR", "Session non trouvee", <<>>)>>
         /\ UNCHANGED <<sessions, sockets>>
    ELSE LET code == CHOOSE c \in findSession(m.code) : TRUE
             session == sessions[code]
         IN /\ sessions' = [sessions EXCEPT ![code].sender = w]
            /\ sockets' = [sockets EXCEPT ![w].currentSession = session.code,
                                          ![w].role = "sender"]
            /\ regSent' = <<RegMsg(w, "SESSION_JOINED", session.code, <<>>)>>
                          \o SendIfOpen(session.receiver, "SENDER_CONNECTED", "", <<>>)

\* case 'SEND_FILES'
SendFiles(w, m) ==
    IF CurrentSessionOf(w) = {} \/ \A c \in CurrentSessionOf(w) : sessions[c].receiver = 0
    THEN /\ regSent' = <<RegMsg(w, "ERROR", "Session invalide", <<>>)>>
         /\ UNCHANGED <<sessions, sockets>>
    ELSE LET code == CHOOSE c \in CurrentSessionOf(w) : TRUE
         IN /\ sessions' = [sessions EXCEPT ![code].files = m.files]
            /\ regSent' = SendIfOpen(sessions[code].receiver, "FILES_INCOMING", "", m.files)
            /\ UNCHANGED sockets

\* case 'FILE_CHUNK', 'FILE_COMPLETE', 'TRANSFER_COMPLETE': forwarded to the receiver
ForwardToReceiver(w, m) ==
    /\ regSent' = IF CurrentSessionOf(w) = {} THEN <<>>
                  ELSE LET code == CHOOSE c \in CurrentSessionOf(w) : TRUE
                       IN SendIfOpen(sessions[code].receiver, m.type, "", <<>>)
    /\ UNCHANGED <<sessions, sockets>>

\* case 'ACCEPT_FILES' (as FILES_ACCEPTED), 'CHUNK_ACK': forwarded to the sender
ForwardToSender(w, m) ==
    /\ regSent' = IF CurrentSessionOf(w) = {} THEN <<>>
                  ELSE LET code == CHOOSE c \in CurrentSessionOf(w) : TRUE
                       IN SendIfOpen(sessions[code].sender,
                                     IF m.type = "ACCEPT_FILES" THEN "FILES_ACCEPTED"
                                     ELSE m.type, "", <<>>)
    /\ UNCHANGED <<sessions, sockets>>

\* ws.on('message'): the switch on message.type
RegOnMessage(w, m, code) ==
    /\ IsOpen(w)
    /\ regEvt' = RegEvt("message", w, m)
    /\ UNCHANGED now
    /\ CASE m.type = "CREATE_SESSION" -> CreateSession(w, m, code)
         [] m.type = "JOIN_SESSION" -> JoinSession(w, m)
         [] m.type = "SEND_FILES" -> SendFiles(w, m)
         [] m.type \in {"FILE_CHUNK", "FILE_COMPLETE", "TRANSFER_COMPLETE"} ->
                ForwardToReceiver(w, m)
         [] m.type \in {"ACCEPT_FILES", "CHUNK_ACK"} -> ForwardToSender(w, m)
         [] OTHER -> /\ regSent' = <<>>
                     /\ UNCHANGED <<sessions, sockets>>

\* data that JSON.parse rejects: the catch logs it
RegOnMalformed(w) ==
    /\ IsOpen(w)
    /\ regEvt' = [NoRegEvt EXCEPT !.kind = "malformed", !.socket = w]
    /\ regSent' = <<>>
    /\ UNCHANGED <<sessions, sockets, now>>

\* the peer starts the closing handshake: readyState is CLOSING until 'close'
RegClosing(w) ==
    /\ IsOpen(w)
    /\ sockets' = [sockets EXCEPT ![w].readyState = "CLOSING"]
    /\ regEvt' = [NoRegEvt EXCEPT !.kind = "closing", !.socket = w]
    /\ regSent' = <<>>
    /\ UNCHANGED <<sessions, now>>

\* ws.on('close'); the socket stays known (sessions may still refer to it), its
\* handler variables are gone with the handler
RegOnClose(w) ==
    /\ w \in DOMAIN sockets
    /\ sockets[w].readyState \in {"OPEN", "CLOSING"}
    /\ regEvt' = [NoRegEvt EXCEPT !.kind = "close", !.socket = w]
    /\ sockets' = [sockets EXCEPT ![w] = [readyState |-> "CLOSED", currentSession |-> "",
                                          role |-> ""]]
    /\ UNCHANGED now
    /\ IF CurrentSessionOf(w) = {}
       THEN /\ regSent' = <<>>
            /\ UNCHANGED sessions
       ELSE LET code == sockets[w].currentSession
                session == sessions[code]
                \* readyState as the handler sees it: w itself is CLOSED by now
                open(v) == v # 0 /\ v # w /\ IsOpen(v)
            IN CASE sockets[w].role = "receiver" ->
                       /\ regSent' = IF open(session.sender)
                                     THEN <<RegMsg(session.sender, "RECEIVER_DISCONNECTED", "", <<>>)>>
                                     ELSE <<>>
                       /\ sessions' = MapDelete(sessions, code)
                 [] sockets[w].role = "sender" ->
                       /\ regSent' = IF open(session.receiver)
                                     THEN <<RegMsg(session.receiver, "SENDER_DISCONNECTED", "", <<>>)>>
                                     ELSE <<>>
                       /\ sessions' = [sessions EXCEPT ![code].sender = 0]
                 [] OTHER -> /\ regSent' = <<>>
                             /\ UNCHANGED sessions

RegFrame ==
    UNCHANGED <<relayVars, ftsVars, planVars, rtcVars, uploadVars, wcVars, peerVars, errVars>>

RegInit ==
    /\ RelayIdle /\ FtsOff /\ PlanOff /\ RtcOff /\ RegOff /\ UploadOff /\ WcOff /\ PeerOff
    /\ ErrorsOff

RegNext ==
    \/ \E w \in SocketIds : RegOnConnection(w) /\ RegFrame
    \/ \E w \in SocketIds, m \in RegMessages, code \in GeneratedCodes :
          RegOnMessage(w, m, code) /\ RegFrame
    \/ \E w \in SocketIds : RegOnMalformed(w) /\ RegFrame
    \/ \E w \in SocketIds : RegClosing(w) /\ RegFrame
    \/ \E w \in SocketIds : RegOnClose(w) /\ RegFrame

SpecRegistry == RegInit /\ [][RegNext]_vars

(***************************************************************************)
(* Web client: sendFile against the relay desktop server                   *)
(***************************************************************************)
\* the client socket of the upload
UploadClient == 1

UploadFileId == "f1"

\* the bytes of the files the page is given: 'A' and 'B'
UploadFiles == UNION {[1..n -> {65, 66}] : n \in 1..MaxUploadSize}

\* CHUNK_SIZE, scaled from 64 * 1024
UploadChunkSizes == {1, 2}

\* reader.readAsDataURL(chunk), then (reader.result as string).split(',')[1]
EncodeBase64(bytes) ==
    CASE bytes = <<65>> -> "QQ=="
      [] bytes = <<66>> -> "Qg=="
      [] bytes = <<65, 65>> -> "QUE="
      [] bytes = <<65, 66>> -> "QUI="
      [] bytes = <<66, 65>> -> "QkE="
      [] bytes = <<66, 66>> -> "QkI="
      [] OTHER -> ""

\* ws.onmessage -> handleMessage: case 'file-complete' appends message.savedAs
RECURSIVE CompletedBy(_)
CompletedBy(msgs) ==
    IF msgs = <<>> THEN <<>>
    ELSE (IF Head(msgs).to = UploadClient /\ Head(msgs).msg.type = "file-complete"
          THEN <<Head(msgs).msg.name>> ELSE <<>>) \o CompletedBy(Tail(msgs))

\* what the client sends reaches the server's 'message' handler in order; the
\* answers reach the page's handleMessage
UploadDeliver(m) ==
    /\ lastEvt' = Evt("message", UploadClient, m)
    /\ handleMessage(UploadClient, m)

UploadInit ==
    /\ upload \in [pc : {"connect"}, file : UploadFiles, chunkSize : UploadChunkSizes,
                   fileId : {UploadFileId}, chunkIndex : {0}, completedTransfers : {<<>>}]

\* new WebSocket(wsUrl)
Up_Connect ==
    /\ upload.pc = "connect"
    /\ OnConnection(UploadClient)
    /\ upload' = [upload EXCEPT !.pc = "auth"]

\* ws.onopen: send auth with the session code of the page
Up_Auth ==
    /\ upload.pc = "auth"
    /\ UploadDeliver([NoMessage EXCEPT !.type = "auth", !.sessionCode = validSessionCode])
    /\ upload' = [upload EXCEPT !.pc = "start"]

\* sendFile: file-start with fileId, file.name, file.size and totalChunks
Up_FileStart ==
    /\ upload.pc = "start"
    /\ clients[UploadClient].readyState = "OPEN"
    /\ UploadDeliver([NoMessage EXCEPT !.type = "file-start", !.fileId = upload.fileId,
                                       !.fileName = "a.txt", !.fileSize = Len(upload.file),
                                       !.totalChunks = Ceil(Len(upload.file), upload.chunkSize)])
    /\ upload' = [upload EXCEPT !.pc = "chunk", !.chunkIndex = 0,
                                !.completedTransfers = @ \o CompletedBy(sent')]

\* sendNextChunk and reader.onload: the chunk at chunkIndex, then chunkIndex++
Up_SendNextChunk ==
    /\ upload.pc = "chunk"
    /\ LET start == upload.chunkIndex * upload.chunkSize
           end == Min(start + upload.chunkSize, Len(upload.file))
           chunk == Slice(upload.file, start, end)
       IN UploadDeliver([NoMessage EXCEPT !.type = "file-chunk", !.fileId = upload.fileId,
                                          !.chunkIndex = upload.chunkIndex,
                                          !.data = EncodeBase64(chunk)])
    /\ upload' = [upload EXCEPT
                     !.chunkIndex = @ + 1,
                     !.pc = IF upload.chunkIndex + 1 < Ceil(Len(upload.file), upload.chunkSize)
                            THEN "chunk" ELSE "end",
                     !.completedTransfers = @ \o CompletedBy(sent')]

\* reader.onload after the last chunk: file-end
Up_FileEnd ==
    /\ upload.pc = "end"
    /\ UploadDeliver([NoMessage EXCEPT !.type = "file-end", !.fileId = upload.fileId])
    /\ upload' = [upload EXCEPT !.pc = "done",
                                !.completedTransfers = @ \o CompletedBy(sent')]

UploadFrame == UNCHANGED <<ftsVars, planVars, rtcVars, regVars, wcVars, peerVars, errVars>>

\* the downloads folder is empty or holds a file of the same name already
UploadStart ==
    /\ clients = EmptyMap
    /\ pendingFiles = EmptyMap
    /\ sharedFiles = EmptyMap
    /\ savedFiles \in {<<>>, <<[name |-> Name("a.txt"), data |-> <<>>]>>}
    /\ sent = <<>>
    /\ notified = <<>>
    /\ lastEvt = Evt("none", 0, NoMessage)
    /\ FtsOff /\ PlanOff /\ RtcOff /\ RegOff /\ WcOff /\ PeerOff /\ ErrorsOff /\ UploadInit

UploadNext ==
    \/ Up_Connect /\ UploadFrame
    \/ Up_Auth /\ UploadFrame
    \/ Up_FileStart /\ UploadFrame
    \/ Up_SendNextChunk /\ UploadFrame
    \/ Up_FileEnd /\ UploadFrame

SpecUpload == UploadStart /\ [][UploadNext]_vars

(***************************************************************************)
(* Web client: connect, handleMessage, ws.onclose                          *)
(***************************************************************************)
\* what the relay server sends a client that has authenticated
ServerMessageTypes ==
    {"available-files", "file-start-ack", "file-chunk-ack", "file-complete", "file-ready",
     "pong"}

\* connect(): ws = new WebSocket(wsUrl)
Connect == [n |-> ws.n + 1, readyState |-> "CONNECTING", authSent |-> "", replied |-> ""]

\* the effect of lines 87-151 runs once the page is mounted
WcMount ==
    /\ wcEvt = NoWcEvt
    /\ wcEvt' = [kind |-> "mount", type |-> ""]
    /\ IF sessionCode = ""
       THEN /\ connectionState' = "error"
            /\ UNCHANGED ws
       ELSE /\ ws' = Connect
            /\ UNCHANGED connectionState
    /\ UNCHANGED <<sessionCode, connectionStateRef, reconnectTimeout, pingInterval,
                   everConnected>>

\* ws.onopen: auth is sent with the session code, the ping interval is set
WcOnOpen ==
    /\ ws.readyState = "CONNECTING"
    /\ ws' = [ws EXCEPT !.readyState = "OPEN", !.authSent = sessionCode]
    /\ pingInterval' = TRUE
    /\ wcEvt' = [kind |-> "open", type |-> ""]
    /\ UNCHANGED <<sessionCode, connectionState, connectionStateRef, reconnectTimeout,
                   everConnected>>

\* the ping interval fires
WcPing ==
    /\ pingInterval
    /\ ws.readyState = "OPEN"
    /\ wcEvt' = [kind |-> "ping", type |-> ""]
    /\ UNCHANGED <<sessionCode, connectionState, connectionStateRef, ws, reconnectTimeout,
                   pingInterval, everConnected>>

\* what the server may send on this socket: one answer to the auth, then (after
\* auth-success) the other messages; 'error' at any time
ServerMaySend(type) ==
    /\ ws.readyState = "OPEN"
    /\ type \in {"auth-success", "auth-failed"} => ws.authSent # "" /\ ws.replied = ""
    /\ type \in ServerMessageTypes => ws.replied = "auth-success"

\* ws.onmessage -> handleMessage(message)
WcOnMessage(type) ==
    /\ ServerMaySend(type)
    /\ wcEvt' = [kind |-> "message", type |-> type]
    /\ connectionState' = CASE type = "auth-success" -> "connected"
                            [] type = "auth-failed" -> "error"
                            [] OTHER -> connectionState
    /\ everConnected' = (everConnected \/ type = "auth-success")
    /\ ws' = IF type \in {"auth-success", "auth-failed"}
             THEN [ws EXCEPT !.replied = type] ELSE ws
    /\ UNCHANGED <<sessionCode, connectionStateRef, reconnectTimeout, pingInterval>>

\* the reconnect condition met by every state but 'connecting'
ShouldReconnectUnlessConnecting(current) == current # "connecting"

\* if (connectionStateRef.current === 'connected')
ShouldReconnect(current) == current = "connected"

\* ws.onclose, after a connection that failed or one that was open
WcOnClose ==
    /\ ws.readyState \in {"CONNECTING", "OPEN"}
    /\ ws' = [ws EXCEPT !.readyState = "CLOSED"]
    /\ pingInterval' = FALSE
    /\ wcEvt' = [kind |-> "close", type |-> ""]
    /\ IF ShouldReconnect(connectionStateRef)
       THEN /\ connectionState' = "disconnected"
            /\ reconnectTimeout' = TRUE
       ELSE UNCHANGED <<connectionState, reconnectTimeout>>
    /\ UNCHANGED <<sessionCode, connectionStateRef, everConnected>>

\* useEffect(() => { connectionStateRef.current = connectionState }, [connectionState])
WcSyncRef ==
    /\ connectionStateRef # connectionState
    /\ connectionStateRef' = connectionState
    /\ wcEvt' = [kind |-> "effect", type |-> ""]
    /\ UNCHANGED <<sessionCode, connectionState, ws, reconnectTimeout, pingInterval,
                   everConnected>>

\* the reconnect timer fires, 2 s after the close: effects have long run by then
WcReconnect ==
    /\ reconnectTimeout
    /\ connectionStateRef = connectionState
    /\ ws.n < MaxWcSockets
    /\ reconnectTimeout' = FALSE
    /\ ws' = Connect
    /\ wcEvt' = [kind |-> "reconnect", type |-> ""]
    /\ UNCHANGED <<sessionCode, connectionState, connectionStateRef, pingInterval,
                   everConnected>>

WcFrame ==
    UNCHANGED <<relayVars, ftsVars, planVars, rtcVars, regVars, uploadVars, peerVars, errVars>>

WcInit ==
    /\ RelayIdle /\ FtsOff /\ PlanOff /\ RtcOff /\ RegOff /\ UploadOff /\ PeerOff
    /\ ErrorsOff
    /\ sessionCode \in {"", "AB3XYZ"}
    /\ WcUnmounted

WcNext ==
    \/ WcMount /\ WcFrame
    \/ WcOnOpen /\ WcFrame
    \/ WcPing /\ WcFrame
    \/ \E type \in {"auth-success", "auth-failed", "error"} \cup ServerMessageTypes :
          WcOnMessage(type) /\ WcFrame
    \/ WcOnClose /\ WcFrame
    \/ WcSyncRef /\ WcFrame
    \/ WcReconnect /\ WcFrame

SpecWebClient == WcInit /\ [][WcNext]_vars

\* a connection attempt that has not authenticated ends: the server answers the
\* auth with auth-success, or the socket closes
WcAttemptSettles ==
    /\ ws.replied # "auth-success"
    /\ WcOnMessage("auth-success") \/ WcOnClose
    /\ WcFrame

\* the page with its scheduling: the effects run, the browser opens the socket
\* and fires the reconnect timer, and every attempt authenticates or closes
SpecWebClientLive ==
    /\ SpecWebClient
    /\ WF_vars(WcMount /\ WcFrame)
    /\ WF_vars(WcSyncRef /\ WcFrame)
    /\ WF_vars(WcReconnect /\ WcFrame)
    /\ WF_vars(WcAttemptSettles)

(***************************************************************************)
(* PeerService: connection, sendFiles, the remote peer, acknowledgement    *)
(***************************************************************************)
\* setupConnection for an incoming connection: this.connection = conn, not open yet
PeerOnConnection ==
    /\ peerConnection = "null"
    /\ peerConnection' = "pending"
    /\ peerEvt' = PeerEvt("connection", 0)
    /\ UNCHANGED <<transferAckResolver, sendCall, ackTimers, toPeer, fromPeer>>

\* conn.on('open'): of the incoming connection, or connectTo's, which then runs
\* setupConnection
PeerOnOpen ==
    /\ peerConnection \in {"null", "pending"}
    /\ peerConnection' = "open"
    /\ peerEvt' = PeerEvt("open", 0)
    /\ UNCHANGED <<transferAckResolver, sendCall, ackTimers, toPeer, fromPeer>>

\* conn.on('close'): this.connection = null; nothing more travels on the connection
PeerOnClose ==
    /\ peerConnection # "null"
    /\ peerConnection' = "null"
    /\ toPeer' = <<>>
    /\ fromPeer' = <<>>
    /\ peerEvt' = PeerEvt("close", 0)
    /\ UNCHANGED <<transferAckResolver, sendCall, ackTimers>>

\* destroy(): closes the connection and drops the resolver; the timers stay
destroy ==
    /\ peerConnection # "null" \/ transferAckResolver
    /\ peerConnection' = "null"
    /\ transferAckResolver' = FALSE
    /\ toPeer' = <<>>
    /\ fromPeer' = <<>>
    /\ peerEvt' = PeerEvt("destroy", 0)
    /\ UNCHANGED <<sendCall, ackTimers>>

\* a message on the connection, with the call of sendFiles it belongs to
PeerWire(type, call) == [type |-> type, call |-> call]

\* sendFiles up to its first await: throws when not connected, else announces
\* the files
sendFiles(files) ==
    /\ sendCall.pc \in {"idle", "done", "failed"}
    /\ sendCall.n < MaxSendCalls
    /\ peerEvt' = PeerEvt("sendFiles", sendCall.n + 1)
    /\ IF peerConnection # "open"
       THEN /\ sendCall' = [pc |-> "failed", n |-> sendCall.n + 1, files |-> files,
                            fileIndex |-> 0]
            /\ UNCHANGED toPeer
       ELSE /\ sendCall' = [pc |-> "sending", n |-> sendCall.n + 1, files |-> files,
                            fileIndex |-> 0]
            /\ toPeer' = Append(toPeer, PeerWire("transfer-start", sendCall.n + 1))
    /\ UNCHANGED <<peerConnection, transferAckResolver, ackTimers, fromPeer>>

\* one turn of the loop over the files: file-start, the chunks and file-end;
\* this.connection.send throws when the connection has been set to null
SendFile ==
    /\ sendCall.pc = "sending"
    /\ sendCall.fileIndex < sendCall.files
    /\ peerEvt' = PeerEvt("file", sendCall.n)
    /\ IF peerConnection = "null"
       THEN /\ sendCall' = [sendCall EXCEPT !.pc = "failed"]
            /\ UNCHANGED toPeer
       ELSE /\ sendCall' = [sendCall EXCEPT !.fileIndex = @ + 1]
            /\ toPeer' = IF peerConnection = "open"
                         THEN Append(toPeer, PeerWire("file-end", sendCall.n))
                         ELSE toPeer
    /\ UNCHANGED <<peerConnection, transferAckResolver, ackTimers, fromPeer>>

\* Promise.race([ackPromise, timeoutPromise]) settles with the first of the two
\* that resolves; this reading waits for the acknowledgement alone
RaceAckOnly(ackResolved, timeoutResolved) == ackResolved

\* await Promise.race([ackPromise, timeoutPromise])
RaceSettled(ackResolved, timeoutResolved) == ackResolved \/ timeoutResolved

\* after the loop: send transfer-end, install the resolver, start the 5 s timer
SendTransferEnd ==
    /\ sendCall.pc = "sending"
    /\ sendCall.fileIndex = sendCall.files
    /\ IF peerConnection = "null"
       THEN /\ sendCall' = [sendCall EXCEPT !.pc = "failed"]
            /\ peerEvt' = PeerEvt("file", sendCall.n)
            /\ UNCHANGED <<toPeer, transferAckResolver, ackTimers>>
       ELSE /\ sendCall' = [sendCall EXCEPT !.pc = "waiting"]
            /\ peerEvt' = PeerEvt("transfer-end", sendCall.n)
            /\ toPeer' = IF peerConnection = "open"
                         THEN Append(toPeer, PeerWire("transfer-end", sendCall.n))
                         ELSE toPeer
            /\ transferAckResolver' = TRUE
            /\ ackTimers' = ackTimers \cup {sendCall.n}
    /\ UNCHANGED <<peerConnection, fromPeer>>

\* the remote peer's handleMessage: it answers transfer-end with transfer-ack
\* when its own connection is open
RemoteHandleMessage(remoteOpen) ==
    /\ toPeer # <<>>
    /\ toPeer' = Tail(toPeer)
    /\ fromPeer' = IF Head(toPeer).type = "transfer-end" /\ remoteOpen
                   THEN Append(fromPeer, PeerWire("transfer-ack", Head(toPeer).call))
                   ELSE fromPeer
    /\ peerEvt' = PeerEvt("remote", 0)
    /\ UNCHANGED <<peerConnection, transferAckResolver, sendCall, ackTimers>>

\* handleMessage case 'transfer-ack': resolve the waiting promise, if any
OnTransferAck ==
    /\ fromPeer # <<>>
    /\ Head(fromPeer).type = "transfer-ack"
    /\ fromPeer' = Tail(fromPeer)
    /\ peerEvt' = PeerEvt("ack", sendCall.n)
    /\ transferAckResolver' = FALSE
    /\ sendCall' = IF sendCall.pc = "waiting" /\ RaceSettled(transferAckResolver, FALSE)
                   THEN [sendCall EXCEPT !.pc = "done"] ELSE sendCall
    /\ UNCHANGED <<peerConnection, ackTimers, toPeer>>

\* the 5 s timer of call n fires
AckTimeout(n) ==
    /\ n \in ackTimers
    /\ ackTimers' = ackTimers \ {n}
    /\ peerEvt' = PeerEvt("timeout", n)
    /\ sendCall' = IF sendCall.pc = "waiting" /\ RaceSettled(FALSE, sendCall.n = n)
                   THEN [sendCall EXCEPT !.pc = "done"] ELSE sendCall
    /\ UNCHANGED <<peerConnection, transferAckResolver, toPeer, fromPeer>>

PeerFrame ==
    UNCHANGED <<relayVars, ftsVars, planVars, rtcVars, regVars, uploadVars, wcVars, errVars,
                direct>>

PeerInit ==
    /\ RelayIdle /\ FtsOff /\ PlanOff /\ RtcOff /\ RegOff /\ UploadOff /\ WcOff /\ PeerOff
    /\ ErrorsOff

PeerNext ==
    \/ PeerOnConnection /\ PeerFrame
    \/ PeerOnOpen /\ PeerFrame
    \/ PeerOnClose /\ PeerFrame
    \/ destroy /\ PeerFrame
    \/ \E files \in 0..MaxPeerFiles : sendFiles(files) /\ PeerFrame
    \/ SendFile /\ PeerFrame
    \/ SendTransferEnd /\ PeerFrame
    \/ \E remoteOpen \in BOOLEAN : RemoteHandleMessage(remoteOpen) /\ PeerFrame
    \/ OnTransferAck /\ PeerFrame
    \/ \E n \in 1..MaxSendCalls : AckTimeout(n) /\ PeerFrame

SpecPeer == PeerInit /\ [][PeerNext]_vars

(***************************************************************************)
(* TransferError values: createError of the three services and its calls   *)
(***************************************************************************)
Site(line, code) == [line |-> line, code |-> code]

\* a createError that leaves a chunk's checksum mismatch retryable
FileTransferService_createErrorRetryable(code) ==
    [code |-> code,
     recoverable |-> (code # "FILE_TOO_LARGE" /\ code # "INVALID_FILE_TYPE")]

\* FileTransferService.createError
FileTransferService_createError(code) ==
    [code |-> code,
     recoverable |-> (/\ code # "FILE_TOO_LARGE"
                      /\ code # "INVALID_FILE_TYPE"
                      /\ code # "CHECKSUM_MISMATCH")]

\* SignalingService.createError
SignalingService_createError(code) ==
    [code |-> code, recoverable |-> (code = "RATE_LIMITED")]

\* the calls of createError in FileTransferService: validateFile, getNextChunk,
\* acknowledgeChunk (unknown transfer, retries exhausted), receiveChunk,
\* completeReceiving (whole-file checksum)
FileTransferServiceSites ==
    {Site(369, "FILE_TOO_LARGE"), Site(378, "INVALID_FILE_TYPE"), Site(532, "UNKNOWN"),
     Site(560, "UNKNOWN"), Site(567, "CHECKSUM_MISMATCH"), Site(672, "UNKNOWN"),
     Site(689, "CHECKSUM_MISMATCH")}

\* the calls of createError in SignalingService: the rate limit and the session
\* lookup of each operation, and the QR payload checks
SignalingServiceSites ==
    {Site(line, "RATE_LIMITED") : line \in {125, 144, 160, 179, 195, 214}}
        \cup {Site(line, "SIGNALING_FAILED") :
                 line \in {130, 149, 165, 184, 200, 219, 334, 342}}

\* the calls of createError in WebRTCService
WebRTCServiceSites ==
    {Site(line, "CONNECTION_FAILED") : line \in {364, 415, 430, 439, 454, 471, 475, 556}}
        \cup {Site(line, "NETWORK_INTERRUPTED") : line \in {481, 487, 592}}
        \cup {Site(569, "PEER_UNREACHABLE"), Site(632, "TIMEOUT")}

Produced(service, site, error) ==
    [service |-> service, line |-> site.line, code |-> error.code,
     recoverable |-> error.recoverable]

\* a call of this.createError in FileTransferService
FileTransferServiceError(site) ==
    /\ Len(errors) < MaxErrors
    /\ errors' = Append(errors, Produced("FileTransferService", site,
                                         FileTransferService_createError(site.code)))

\* a call of this.createError in SignalingService
SignalingServiceError(site) ==
    /\ Len(errors) < MaxErrors
    /\ errors' = Append(errors, Produced("SignalingService", site,
                                         SignalingService_createError(site.code)))

\* a call of this.createError in WebRTCService
WebRTCServiceError(site) ==
    /\ Len(errors) < MaxErrors
    /\ errors' = Append(errors, Produced("WebRTCService", site,
                                         WebRTCService_createError(site.code)))

ErrorsFrame ==
    UNCHANGED <<relayVars, ftsVars, planVars, rtcVars, regVars, uploadVars, wcVars, peerVars,
                signaling>>

ErrorsInit ==
    /\ RelayIdle /\ FtsOff /\ PlanOff /\ RtcOff /\ RegOff /\ UploadOff /\ WcOff /\ PeerOff
    /\ ErrorsOff

ErrorsNext ==
    \/ \E site \in FileTransferServiceSites : FileTransferServiceError(site) /\ ErrorsFrame
    \/ \E site \in SignalingServiceSites : SignalingServiceError(site) /\ ErrorsFrame
    \/ \E site \in WebRTCServiceSites : WebRTCServiceError(site) /\ ErrorsFrame

SpecErrors == ErrorsInit /\ [][ErrorsNext]_vars

(***************************************************************************)
(* FileTransferService: validation and prepareTransfer under any allow-list *)
(***************************************************************************)
ValidateIds == {"t1", "t2"}

\* file.type of the files offered: empty (unknown), listed, matched by a
\* wildcard only, or neither
MimeTypes == {"", "image/png", "image/gif", "application/x-foo"}

\* allow-lists: the shipped one (it ends with the fallback type), and lists
\* without the fallback type
AllowLists ==
    {ShippedMimeTypes, {"image/png"}, {"image/*"}, {"image/png", "application/*"}, {}}

ValidationConfigs ==
    [chunkSizeBytes : {1}, maxRetries : {maxRetries}, maxSizeBytes : {MaxValidSize},
     allowedMimeTypes : AllowLists]

\* files of 0 .. MaxValidSize + 1 bytes of each type
ValidatedFiles == [data : {<<>>, <<0>>, <<0, 1>>, <<1, 0, 1>>}, type : MimeTypes]

ValidateInit ==
    /\ RelayIdle /\ PlanOff /\ MoreOff
    /\ config \in ValidationConfigs
    /\ FtsIdle
    /\ pc = "free"

ValidateNext ==
    \/ \E id \in ValidateIds, file \in ValidatedFiles : prepareTransfer(id, file) /\ FtsFrame
    \/ \E id \in ValidateIds : cancelTransfer(id) /\ FtsFrame
    \/ cleanup /\ FtsFrame

SpecValidate == ValidateInit /\ [][ValidateNext]_vars

(***************************************************************************)
(* FileTransferService: the chunks of a file arriving in any order         *)
(***************************************************************************)
\* The driver prepares a file (for its chunk plan and checksum), starts the
\* receiving side, and passes every chunk of the plan to receiveChunk once, in
\* any order; a call of receiveChunk runs in two steps, around its await of the
\* chunk checksum, and the calls in flight finish in any order.
ArrivalId == "t1"

\* the position of the driver: the indices in the order their calls began, the
\* calls in flight, the indices in the order their calls returned
Arrival(step, begun, inFlight, returned) ==
    [step |-> step, begun |-> begun, inFlight |-> inFlight, returned |-> returned]

Range(seq) == {seq[k] : k \in 1..Len(seq)}

\* the chunk of the plan with a 0-based index, as getNextChunk builds it
CorrectChunk(index) ==
    LET context == activeTransfers[ArrivalId]
        chunkInfo == context.chunks[index + 1]
        buffer == Slice(context.file.data, chunkInfo.start, chunkInfo.end)
    IN [index |-> chunkInfo.index, data |-> buffer,
        checksum |-> computeChunkChecksum(buffer)]

ArrivalFrame == UNCHANGED <<config, relayVars, planVars, moreVars>>

Arr_Prepare ==
    /\ pc = Arrival("prepare", <<>>, {}, <<>>)
    /\ \E file \in Files : prepareTransfer(ArrivalId, file)
    /\ pc' = Arrival(IF ret'.value.success THEN "start" ELSE "rejected", <<>>, {}, <<>>)
    /\ ArrivalFrame

Arr_Start ==
    /\ pc.step = "start"
    /\ startReceiving(ArrivalId, activeTransfers[ArrivalId].metadata)
    /\ pc' = Arrival("receive", <<>>, {}, <<>>)
    /\ ArrivalFrame

\* receiveChunk up to its await: the buffer is there, the checksum is started
Arr_ReceiveBegin(index) ==
    /\ pc.step = "receive"
    /\ index \in 0..(Len(activeTransfers[ArrivalId].chunks) - 1)
    /\ index \notin Range(pc.begun)
    /\ ArrivalId \in DOMAIN receivingBuffers
    /\ pc' = Arrival("receive", Append(pc.begun, index), pc.inFlight \cup {index},
                   pc.returned)
    /\ UNCHANGED <<activeTransfers, receivingBuffers, ret, ackedOnce, failStreak, cancelled>>
    /\ ArrivalFrame

\* receiveChunk after its await: compare, store, return the acknowledgement
Arr_ReceiveEnd(index) ==
    /\ pc.step = "receive"
    /\ index \in pc.inFlight
    /\ receiveChunk(ArrivalId, CorrectChunk(index))
    /\ pc' = Arrival("receive", pc.begun, pc.inFlight \ {index},
                   Append(pc.returned, index))
    /\ ArrivalFrame

\* completeReceiving once every call of receiveChunk has returned
Arr_Complete ==
    /\ pc.step = "receive"
    /\ Range(pc.begun) = 0..(Len(activeTransfers[ArrivalId].chunks) - 1)
    /\ pc.inFlight = {}
    /\ completeReceiving(ArrivalId, activeTransfers[ArrivalId].metadata,
                         activeTransfers[ArrivalId].checksum)
    /\ pc' = Arrival("done", pc.begun, {}, pc.returned)
    /\ ArrivalFrame

ArrivalInit ==
    /\ RelayIdle /\ PlanOff /\ MoreOff
    /\ config \in Configs
    /\ FtsIdle
    /\ pc = Arrival("prepare", <<>>, {}, <<>>)

ArrivalNext ==
    \/ Arr_Prepare
    \/ Arr_Start
    \/ \E index \in 0..MaxFileSize : Arr_ReceiveBegin(index)
    \/ \E index \in 0..MaxFileSize : Arr_ReceiveEnd(index)
    \/ Arr_Complete

SpecArrival == ArrivalInit /\ [][ArrivalNext]_vars

(***************************************************************************)
(* WebRTCService: connection attempts, the connection timer and the        *)
(* notifications of the state observer and of onError                      *)
(***************************************************************************)
\* the codes the event handlers of createPeerConnection / setupDataChannel report:
\* connectionState 'disconnected' or 'failed', iceConnectionState 'failed',
\* channel.onerror
FailureCodes == {"CONNECTION_FAILED", "PEER_UNREACHABLE", "NETWORK_INTERRUPTED"}

StateNote(state) == [kind |-> "state", value |-> state]

ErrorNote(code) == [kind |-> "error", value |-> code]

\* every step starts with nothing told to the observers yet; was: what getState()
\* returned when the step began
Step(s) == [s EXCEPT !.log = <<>>, !.was = s.state]

\* clearConnectionTimeout: clearTimeout of the timer the field holds
clearConnectionTimeout(s) ==
    [s EXCEPT !.timeouts = @ \ {s.connectionTimeout}, !.connectionTimeout = 0]

\* updateState(state)
updateState(s, state) ==
    [s EXCEPT !.state = IF s.current # 0 THEN state ELSE @,
              !.log = Append(@, StateNote(state))]

\* cleanup(): both timer fields cleared, the channel and the peer connection of
\* this.connection closed (the closed channel may still deliver its close event)
WebRTCService_cleanup(s) ==
    LET t == clearConnectionTimeout(s)
    IN [t EXCEPT !.iceTimers = @ \ {t.iceGatheringTimeout}, !.iceGatheringTimeout = 0,
                 !.alive = @ \ {t.current},
                 !.closing = IF t.current # 0 THEN @ \cup {t.current} ELSE @,
                 !.current = 0, !.state = "IDLE"]

\* handleError with the disconnect of close() in front of the ERROR notification
handleErrorViaDisconnect(s, code) ==
    LET u == updateState(updateState(s, "DISCONNECTED"), "ERROR")
    IN WebRTCService_cleanup([u EXCEPT !.log = Append(@, ErrorNote(code))])

\* handleError(error)
handleError(s, code) ==
    LET u == updateState(s, "ERROR")
    IN WebRTCService_cleanup([u EXCEPT !.log = Append(@, ErrorNote(code))])

\* createOffer up to its first await: cleanup(), a peer connection and a channel of
\* its own, gatherICECandidates arms the gathering timer
RtcCreateOffer(a) ==
    /\ rtc.calls[a].kind = "none"
    /\ rtc' = [WebRTCService_cleanup(Step(rtc)) EXCEPT
                 !.calls[a] = [kind |-> "createOffer", at |-> "gather"],
                 !.alive = @ \cup {a},
                 !.iceGatheringTimeout = a, !.iceTimers = @ \cup {a}]

\* handleOffer up to its first await: cleanup(), a peer connection,
\* setRemoteDescription pending
RtcHandleOffer(a) ==
    /\ rtc.calls[a].kind = "none"
    /\ rtc' = [WebRTCService_cleanup(Step(rtc)) EXCEPT
                 !.calls[a] = [kind |-> "handleOffer", at |-> "remote"],
                 !.alive = @ \cup {a}]

\* handleOffer after setRemoteDescription: gatherICECandidates arms the gathering
\* timer (the field is overwritten, a timer it held stays armed)
SetRemoteDescriptionResolved(a) ==
    /\ rtc.calls[a].at = "remote"
    /\ rtc' = [Step(rtc) EXCEPT !.calls[a].at = "gather",
                                !.iceGatheringTimeout = a, !.iceTimers = @ \cup {a}]

\* the gathering timer expires: gatherICECandidates resolves (the gathering state
\* is not 'complete' before a local description is set)
IceGatheringTimeoutFires(a) ==
    /\ a \in rtc.iceTimers
    /\ rtc' = [Step(rtc) EXCEPT !.iceTimers = @ \ {a},
                 !.calls[a].at = IF @ = "gather" THEN "local" ELSE @]

\* the rest of createOffer / handleOffer: this.connection assigned in state
\* CONNECTING, startConnectionTimeout()
SetupDone(a) ==
    /\ rtc.calls[a].at = "local"
    /\ rtc' = [Step(rtc) EXCEPT !.calls[a].at = "done",
                 !.current = a, !.state = "CONNECTING",
                 !.connectionTimeout = a, !.timeouts = @ \cup {a}]

\* an awaited call of createOffer / handleOffer rejects: the catch block
SetupThrows(a) ==
    /\ rtc.calls[a].at \in {"remote", "local"}
    /\ rtc' = [handleError(Step(rtc), "CONNECTION_FAILED") EXCEPT !.calls[a].at = "failed"]

\* channel.onopen, and connectionState 'connected'
OnConnected(a) ==
    /\ a \in rtc.alive
    /\ rtc.calls[a].at = "done"
    /\ rtc' = [updateState(clearConnectionTimeout(Step(rtc)), "CONNECTED")
                 EXCEPT !.reached = @ \cup {a}]

\* connectionState 'disconnected' / 'failed', iceConnectionState 'failed',
\* channel.onerror of the peer connection of attempt a
OnFailure(a, code) ==
    /\ a \in rtc.alive
    /\ rtc' = handleError(Step(rtc), code)

\* channel.onclose, and connectionState 'closed'
RtcOnClose(a) ==
    /\ a \in rtc.alive \cup rtc.closing
    /\ rtc' = [updateState(Step(rtc), "DISCONNECTED") EXCEPT !.closing = @ \ {a}]

\* the timer of startConnectionTimeout expires
ConnectionTimeoutFires(a) ==
    /\ a \in rtc.timeouts
    /\ rtc' = handleError([Step(rtc) EXCEPT !.timeouts = @ \ {a}], "TIMEOUT")

\* handleAnswer whose setRemoteDescription rejects
handleAnswerThrows ==
    /\ rtc.current # 0
    /\ rtc' = handleError(Step(rtc), "CONNECTION_FAILED")

\* close()
RtcClose ==
    /\ rtc.current # 0
    /\ rtc' = updateState(WebRTCService_cleanup(Step(rtc)), "DISCONNECTED")

LinkFrame ==
    UNCHANGED <<relayVars, ftsVars, planVars, regVars, uploadVars, wcVars, peerVars, errVars,
                connection, rtcRet>>

LinkInit ==
    /\ RelayIdle /\ FtsOff /\ PlanOff /\ RtcOff /\ RegOff /\ UploadOff /\ WcOff /\ PeerOff
    /\ ErrorsOff

LinkNext ==
    \/ \E a \in Attempts : RtcCreateOffer(a) /\ LinkFrame
    \/ \E a \in Attempts : RtcHandleOffer(a) /\ LinkFrame
    \/ \E a \in Attempts : SetRemoteDescriptionResolved(a) /\ LinkFrame
    \/ \E a \in Attempts : IceGatheringTimeoutFires(a) /\ LinkFrame
    \/ \E a \in Attempts : SetupDone(a) /\ LinkFrame
    \/ \E a \in Attempts : SetupThrows(a) /\ LinkFrame
    \/ \E a \in Attempts : OnConnected(a) /\ LinkFrame
    \/ \E a \in Attempts, code \in FailureCodes : OnFailure(a, code) /\ LinkFrame
    \/ \E a \in Attempts : RtcOnClose(a) /\ LinkFrame
    \/ \E a \in Attempts : ConnectionTimeoutFires(a) /\ LinkFrame
    \/ handleAnswerThrows /\ LinkFrame
    \/ RtcClose /\ LinkFrame

SpecLink == LinkInit /\ [][LinkNext]_vars

(***************************************************************************)
(* PeerService: sendFiles and handleMessage message by message             *)
(***************************************************************************)
\* the calls of sendFiles of a run
MaxDirectCalls == 2

\* `if ((chunkIndex + 1) % 5 === 0)`: sendFiles pauses after every fifth chunk
FlowControlEvery == 5

\* the files of a call, each by its totalChunks = Math.ceil(bytes.length / CHUNK_SIZE)
DirectFiles == {<<>>, <<1>>, <<0, 2>>, <<6>>}

PeerMsg(type, fileIndex, chunkIndex, totalChunks) ==
    [type |-> type, fileIndex |-> fileIndex, chunkIndex |-> chunkIndex,
     totalChunks |-> totalChunks]

TransferStartMsg(files) == PeerMsg("transfer-start", 0, 0, Len(files))

FileStartMsg(fileIndex, totalChunks) == PeerMsg("file-start", fileIndex, 0, totalChunks)

ChunkMsg(fileIndex, chunkIndex, totalChunks) == PeerMsg("chunk", fileIndex, chunkIndex, totalChunks)

FileEndMsg(fileIndex) == PeerMsg("file-end", fileIndex, 0, 0)

TransferEndMsg(files) == PeerMsg("transfer-end", 0, 0, Len(files))

\* the chunk messages of indices from..to - 1 of a file, in the order of the loop
ChunkRun(fileIndex, from, to, totalChunks) ==
    [k \in 1..(to - from) |-> ChunkMsg(fileIndex, from + k - 1, totalChunks)]

RECURSIVE FileMessages(_, _)
\* what the loop over the files emits for the files from fileIndex (0-based) on
FileMessages(files, fileIndex) ==
    IF fileIndex >= Len(files) THEN <<>>
    ELSE <<FileStartMsg(fileIndex, files[fileIndex + 1])>>
         \o ChunkRun(fileIndex, 0, files[fileIndex + 1], files[fileIndex + 1])
         \o <<FileEndMsg(fileIndex)>>
         \o FileMessages(files, fileIndex + 1)

\* everything a call of sendFiles that runs to its end emits
AllMessages(files) ==
    <<TransferStartMsg(files)>> \o FileMessages(files, 0) \o <<TransferEndMsg(files)>>

IsPrefix(s, t) == Len(s) <= Len(t) /\ \A i \in 1..Len(s) : s[i] = t[i]

\* this.connection.send(message) of the sender, for a run of messages
Emit(d, msgs) ==
    [d EXCEPT !.emitted = @ \o msgs, !.channel = @ \o msgs]

\* the index at which the chunk loop pauses or ends when it starts at from
NextPause(from, totalChunks) ==
    LET pause == ((from \div FlowControlEvery) + 1) * FlowControlEvery
    IN IF pause <= totalChunks THEN pause ELSE totalChunks

\* the position after file-end and the 50 ms delay: the next file, or the end
AfterFile(d) ==
    [d EXCEPT !.fileIndex = @ + 1, !.chunkIndex = 0,
              !.pc = IF d.fileIndex + 1 < Len(d.files) THEN "file" ELSE "end"]

\* the chunk loop from d.chunkIndex up to its next pause, then file-end if the
\* loop is over
SendChunks(d) ==
    LET total == d.files[d.fileIndex + 1]
        to == NextPause(d.chunkIndex, total)
        e == Emit(d, ChunkRun(d.fileIndex, d.chunkIndex, to, total))
    IN IF d.chunkIndex < total /\ to % FlowControlEvery = 0
       THEN [e EXCEPT !.pc = "chunks", !.chunkIndex = to]
       ELSE AfterFile(Emit(e, <<FileEndMsg(d.fileIndex)>>))

\* the sender's step record, and the receiver's
SenderStep(d, kind) == [d EXCEPT !.last = [kind |-> kind, stored |-> FALSE, acked |-> 0]]

\* a send on `this.connection` after the close handler set it to null: TypeError,
\* the call of sendFiles rejects
SendThrows(d) == [d EXCEPT !.pc = "failed"]

\* connectTo resolves and setupConnection runs on both sides (the page connects
\* before it offers to send, not while a call of sendFiles runs)
DirectOnOpen ==
    /\ direct.senderConn = "null"
    /\ direct.pc \in {"idle", "done", "failed"}
    /\ direct' = [SenderStep(direct, "open") EXCEPT !.senderConn = "open",
                     !.receiverConn = "sender", !.channel = <<>>, !.acks = 0]

\* conn.on('close') on both sides: this.connection = null, the channel is gone
DirectOnClose ==
    /\ direct.senderConn = "open"
    /\ direct' = [SenderStep(direct, "close") EXCEPT !.senderConn = "null",
                     !.receiverConn = IF @ = "sender" THEN "null" ELSE @,
                     !.channel = <<>>, !.acks = 0]

\* peer.on('connection') of the receiver for another peer: setupConnection puts
\* that connection, not open yet, in this.connection; the handlers of the
\* first connection stay
ReceiverOnConnection ==
    /\ direct.receiverConn = "sender"
    /\ direct' = [SenderStep(direct, "connection") EXCEPT !.receiverConn = "pending"]

\* the connection of the other peer opens
ReceiverOtherOpen ==
    /\ direct.receiverConn = "pending"
    /\ direct' = [SenderStep(direct, "other-open") EXCEPT !.receiverConn = "other"]

\* sendFiles up to its first await: throws when not connected; transfer-start;
\* with no file, transfer-end follows at once
DirectSendFiles(files) ==
    /\ direct.pc \in {"idle", "done", "failed"}
    /\ direct.n < MaxDirectCalls
    /\ LET d == [SenderStep(direct, "sendFiles") EXCEPT !.n = @ + 1, !.files = files,
                    !.fileIndex = 0, !.chunkIndex = 0, !.emitted = <<>>]
       IN direct' =
            IF direct.senderConn # "open" THEN SendThrows(d)
            ELSE IF files = <<>>
            THEN [Emit(d, <<TransferStartMsg(files), TransferEndMsg(files)>>)
                    EXCEPT !.pc = "waiting"]
            ELSE [Emit(d, <<TransferStartMsg(files)>>) EXCEPT !.pc = "file"]

\* after `await file.arrayBuffer()`: file-start and the chunks up to the first pause
DirectFileStart ==
    /\ direct.pc = "file"
    /\ LET d == SenderStep(direct, "file-start")
       IN direct' =
            IF direct.senderConn # "open" THEN SendThrows(d)
            ELSE SendChunks(Emit(d, <<FileStartMsg(d.fileIndex, d.files[d.fileIndex + 1])>>))

\* after the 5 ms pause: the next chunks
DirectMoreChunks ==
    /\ direct.pc = "chunks"
    /\ LET d == SenderStep(direct, "chunks")
       IN direct' = IF direct.senderConn # "open" THEN SendThrows(d) ELSE SendChunks(d)

\* after the loop over the files: transfer-end, then the wait for the
\* acknowledgement or the 5 s timer
DirectTransferEnd ==
    /\ direct.pc = "end"
    /\ LET d == SenderStep(direct, "transfer-end")
       IN direct' =
            IF direct.senderConn # "open" THEN SendThrows(d)
            ELSE [Emit(d, <<TransferEndMsg(d.files)>>) EXCEPT !.pc = "waiting"]

\* the sender handles transfer-ack
DirectOnAck ==
    /\ direct.acks > 0
    /\ direct' = [SenderStep(direct, "ack") EXCEPT !.acks = @ - 1,
                     !.pc = IF @ = "waiting" THEN "done" ELSE @]

\* the 5 s timer of the waiting call fires
DirectAckTimeout ==
    /\ direct.pc = "waiting"
    /\ direct' = [SenderStep(direct, "timeout") EXCEPT !.pc = "done"]

\* handleMessage(message) of the receiver
PeerService_handleMessage(d, m) ==
    LET r == [d EXCEPT !.last = [kind |-> m.type, stored |-> FALSE, acked |-> 0]]
    IN CASE m.type = "transfer-start" ->
              [r EXCEPT !.receivingFiles = EmptyMap, !.events = <<"onFilesIncoming">>]
         [] m.type = "file-start" ->
              [r EXCEPT !.receivingFiles =
                           MapSet(@, m.fileIndex,
                                  [chunks |-> NewArray(m.totalChunks),
                                   totalChunks |-> m.totalChunks, receivedChunks |-> 0]),
                        !.events = Append(@, "onFileStart")]
         [] m.type = "chunk" ->
              IF m.fileIndex \in DOMAIN d.receivingFiles
              THEN [r EXCEPT !.receivingFiles[m.fileIndex].chunks =
                                 ArraySet(@, m.chunkIndex, m.chunkIndex),
                             !.receivingFiles[m.fileIndex].receivedChunks = @ + 1,
                             !.last.stored = TRUE]
              ELSE r
         [] m.type = "file-end" ->
              IF m.fileIndex \in DOMAIN d.receivingFiles
              THEN [r EXCEPT !.events = Append(@, "onFileComplete")]
              ELSE r
         [] m.type = "transfer-end" ->
              LET open == d.receiverConn \in {"sender", "other"}
              IN [r EXCEPT !.acks = IF d.receiverConn = "sender" THEN @ + 1 ELSE @,
                           !.last.acked = IF open THEN 1 ELSE 0,
                           !.events = Append(@, "onTransferComplete")]

\* conn.on('data') of the receiver: the oldest message of the channel
ReceiverOnData ==
    /\ direct.channel # <<>>
    /\ direct' = PeerService_handleMessage([direct EXCEPT !.channel = Tail(@)], Head(direct.channel))

DirectFrame ==
    UNCHANGED <<relayVars, ftsVars, planVars, rtcVars, regVars, uploadVars, wcVars, errVars,
                peerConnection, transferAckResolver, sendCall, ackTimers, toPeer, fromPeer,
                peerEvt>>

DirectInit ==
    /\ RelayIdle /\ FtsOff /\ PlanOff /\ RtcOff /\ RegOff /\ UploadOff /\ WcOff /\ PeerOff
    /\ ErrorsOff

DirectNext ==
    \/ DirectOnOpen /\ DirectFrame
    \/ DirectOnClose /\ DirectFrame
    \/ ReceiverOnConnection /\ DirectFrame
    \/ ReceiverOtherOpen /\ DirectFrame
    \/ \E files \in DirectFiles : DirectSendFiles(files) /\ DirectFrame
    \/ DirectFileStart /\ DirectFrame
    \/ DirectMoreChunks /\ DirectFrame
    \/ DirectTransferEnd /\ DirectFrame
    \/ DirectOnAck /\ DirectFrame
    \/ DirectAckTimeout /\ DirectFrame
    \/ ReceiverOnData /\ DirectFrame

SpecDirect == DirectInit /\ [][DirectNext]_vars

(***************************************************************************)
(* Session registry: the clock and the sweep of old sessions               *)
(***************************************************************************)
\* 10 * 60 * 1000 ms, in units of five minutes
SessionTtl == 2

\* the last instant of the clock, in the same unit
MaxNow == 3

\* the code generateCode() returns in these runs
SweepCodes == {"AB3XYZ"}

\* the messages a session sees between its creation and the sweep
SweepMessages ==
    [type : {"CREATE_SESSION", "FILE_CHUNK", "CHUNK_ACK"},
     code : {""}, hasCode : {FALSE}, files : {<<>>}]
    \cup [type : {"JOIN_SESSION"}, code : {"ab3xyz"}, hasCode : {TRUE},
          files : {<<>>}]
    \cup [type : {"SEND_FILES"}, code : {""}, hasCode : {FALSE}, files : FileLists]

\* a sweep that spares the sessions a sender has joined
ExpiredWhenIdle(session, t) == t - session.createdAt > SessionTtl /\ session.sender = 0

\* now - session.createdAt > 10 * 60 * 1000
Expired(session, t) == t - session.createdAt > SessionTtl

\* time passes
Tick ==
    /\ now < MaxNow
    /\ now' = now + 1
    /\ regSent' = <<>>
    /\ regEvt' = [NoRegEvt EXCEPT !.kind = "tick"]
    /\ UNCHANGED <<sessions, sockets>>

\* the callback of setInterval: every session that is too old is deleted
Sweep ==
    /\ sessions' = [code \in {c \in DOMAIN sessions : ~Expired(sessions[c], now)} |->
                       sessions[code]]
    /\ regSent' = <<>>
    /\ regEvt' = [NoRegEvt EXCEPT !.kind = "sweep"]
    /\ UNCHANGED <<sockets, now>>

SweepNext ==
    \/ \E w \in SocketIds : RegOnConnection(w) /\ RegFrame
    \/ \E w \in SocketIds, m \in SweepMessages, code \in SweepCodes :
          RegOnMessage(w, m, code) /\ RegFrame
    \/ \E w \in SocketIds : RegOnClose(w) /\ RegFrame
    \/ Tick /\ RegFrame
    \/ Sweep /\ RegFrame

SpecSweep == RegInit /\ [][SweepNext]_vars

(***************************************************************************)
(* Session registry: one session and the sockets that join it in turn      *)
(***************************************************************************)
\* sockets of a run in which a session is joined by more than one sender
MaxJoinSockets == 3

JoinSockets == 1..MaxJoinSockets

\* the code generateCode() returns in these runs
JoinRunCodes == {"AB3XYZ"}

\* the messages of the receiver and of the senders of one session
JoinRunMessages ==
    [type : {"CREATE_SESSION", "ACCEPT_FILES", "FILE_CHUNK", "FILE_COMPLETE",
             "TRANSFER_COMPLETE", "CHUNK_ACK"},
     code : {""}, hasCode : {FALSE}, files : {<<>>}]
    \cup [type : {"JOIN_SESSION"}, code : {"AB3XYZ"}, hasCode : {TRUE}, files : {<<>>}]

JoinRunNext ==
    \/ \E w \in JoinSockets : RegOnConnection(w) /\ RegFrame
    \/ \E w \in JoinSockets, m \in JoinRunMessages, code \in JoinRunCodes :
          RegOnMessage(w, m, code) /\ RegFrame
    \/ \E w \in JoinSockets : RegOnClose(w) /\ RegFrame

SpecJoinRun == RegInit /\ [][JoinRunNext]_vars

(***************************************************************************)
(* SignalingService: sessions, the rate limit, polling                     *)
(***************************************************************************)
\* the clock counts ticks of 500 ms: the second of checkRateLimit
RateWindow == 2

\* SIGNALING_CONFIG.sessionTimeoutMs, in ticks
sessionTimeoutMs == 600

\* SIGNALING_CONFIG.maxRequestsPerSecond
maxRequestsPerSecond == MaxRequests

\* increases after which currentBackoff is maxBackoffMs (500 * 1.5^7 > 8000)
BackoffCap == 7

\* the operations behind checkRateLimit
SigOps == {"storeOffer", "getOffer", "storeAnswer", "getAnswer", "addCandidate",
           "getCandidates"}

\* a call starts: what the last call returned and delivered is forgotten
SigStep(s, op) == [s EXCEPT !.ret = [op |-> op, code |-> ""], !.delivered = <<>>]

cleanupExpiredSessions(s) ==
    LET live == {id \in DOMAIN s.sessions :
                    ~(s.now - s.sessions[id].lastActivity > sessionTimeoutMs)}
    IN [s EXCEPT !.sessions = [id \in live |-> s.sessions[id]]]

createSession(s) ==
    cleanupExpiredSessions(
        [s EXCEPT !.sessions = MapSet(@, SigSessionId,
                      [offer |-> 0, answer |-> 0, candidates |-> <<>>,
                       createdAt |-> s.now, lastActivity |-> s.now])])

closeSession(s) == [s EXCEPT !.sessions = MapDelete(@, SigSessionId)]

\* requests.filter(t => now - t < 1000)
RecentRequests(s) == SelectSeq(s.requests, LAMBDA t : s.now - t < RateWindow)

\* a limit that lets one request more through
RateExceededAbove(requests) == Len(requests) > maxRequestsPerSecond

\* this.rateLimiter.requests.length >= this.rateLimiter.maxPerSecond
RateExceeded(requests) == Len(requests) >= maxRequestsPerSecond

checkRateLimit(s) ==
    IF RateExceeded(RecentRequests(s))
    THEN [s EXCEPT !.requests = RecentRequests(s)]
    ELSE [s EXCEPT !.requests = Append(RecentRequests(s), s.now),
                   !.accepted = Append(@, s.now)]

\* storeOffer, getOffer, storeAnswer, getAnswer, addCandidate, getCandidates
SignalingOp(s, op) ==
    LET t == [checkRateLimit(s) EXCEPT !.ret = [op |-> op, code |-> ""]]
    IN IF RateExceeded(RecentRequests(s)) THEN [t EXCEPT !.ret.code = "RATE_LIMITED"]
       ELSE IF SigSessionId \notin DOMAIN s.sessions
       THEN [t EXCEPT !.ret.code = "SIGNALING_FAILED"]
       ELSE CASE op = "storeOffer" ->
                    [t EXCEPT !.sessions[SigSessionId].offer = 1,
                              !.sessions[SigSessionId].lastActivity = s.now]
              [] op = "storeAnswer" ->
                    [t EXCEPT !.sessions[SigSessionId].answer = 1,
                              !.sessions[SigSessionId].lastActivity = s.now]
              [] op = "addCandidate" ->
                    [t EXCEPT !.sessions[SigSessionId].candidates = Append(@, 1),
                              !.sessions[SigSessionId].lastActivity = s.now]
              [] OTHER -> t

resetBackoff(s) == [s EXCEPT !.currentBackoff = 0]

increaseBackoff(s) == [s EXCEPT !.currentBackoff = Min(@ + 1, BackoffCap)]

\* stopPolling(): clearTimeout of the handle in pollingInterval, if any
stopPolling(s) ==
    resetBackoff([s EXCEPT !.timers = @ \ {s.pollingInterval}, !.pollingInterval = 0,
                           !.stopped = TRUE])

\* onMessage(message); the callback of the stopAt-th message of a poll calls
\* stopPolling()
onMessage(s, type, stopAt) ==
    LET d == [s EXCEPT !.delivered = Append(@, type), !.lateMessage = @ \/ s.stopped]
    IN IF Len(d.delivered) = stopAt THEN stopPolling(d) ELSE d

RECURSIVE DeliverCandidates(_, _, _)
\* for (const candidate of candidatesResult.data) onMessage(...)
DeliverCandidates(s, n, stopAt) ==
    IF n = 0 THEN s
    ELSE DeliverCandidates(onMessage(s, "CANDIDATE", stopAt), n - 1, stopAt)

\* this.pollingInterval = setTimeout(poll, this.currentBackoff)
SchedulePoll(s) ==
    [s EXCEPT !.handles = @ + 1, !.pollingInterval = s.handles + 1,
              !.timers = @ \cup {s.handles + 1}, !.lateTimer = @ \/ s.stopped]

\* poll(): it has no await, so it runs from its first line to the setTimeout
\* without another event in between
poll(s, stopAt) ==
    IF SigSessionId \notin DOMAIN s.sessions THEN stopPolling(s)
    ELSE LET session == s.sessions[SigSessionId]
             first == SignalingOp(s, IF s.isInitiator THEN "getAnswer" ELSE "getOffer")
             data == IF s.isInitiator THEN session.answer ELSE session.offer
             told == IF first.ret.code = "" /\ data # 0
                     THEN resetBackoff(onMessage(first, IF s.isInitiator THEN "ANSWER"
                                                        ELSE "OFFER", stopAt))
                     ELSE increaseBackoff(first)
             second == SignalingOp(told, "getCandidates")
             done == IF second.ret.code = ""
                     THEN DeliverCandidates(second, Len(session.candidates), stopAt)
                     ELSE second
         IN SchedulePoll(done)

\* startPolling(sessionId, onMessage, isInitiator): a new polling run
startPolling(s, isInitiator, stopAt) ==
    poll([resetBackoff(stopPolling(s)) EXCEPT !.isInitiator = isInitiator,
              !.stopped = FALSE, !.lateMessage = FALSE, !.lateTimer = FALSE], stopAt)

SigCreateSession ==
    /\ SigSessionId \notin DOMAIN signaling.sessions
    /\ signaling' = createSession(SigStep(signaling, "createSession"))

SigCloseSession ==
    /\ SigSessionId \in DOMAIN signaling.sessions
    /\ signaling' = closeSession(SigStep(signaling, "closeSession"))

SigCall(op) ==
    /\ (op = "addCandidate" /\ SigSessionId \in DOMAIN signaling.sessions) =>
            Len(signaling.sessions[SigSessionId].candidates) < MaxCandidates
    /\ signaling' = SignalingOp(SigStep(signaling, op), op)

\* Date.now() moves on; the history keeps the accepted operations of the second
\* that ends now
SigTick ==
    /\ signaling.now < MaxSigNow
    /\ signaling' = [SigStep(signaling, "tick") EXCEPT
                        !.now = @ + 1,
                        !.accepted = SelectSeq(@, LAMBDA t : signaling.now + 1 - t < RateWindow)]

SigStartPolling(isInitiator, stopAt) ==
    /\ signaling.handles < MaxPolls
    /\ signaling' = startPolling(SigStep(signaling, "startPolling"), isInitiator, stopAt)

\* the timer h expires: poll() runs
SigPollFires(h, stopAt) ==
    /\ h \in signaling.timers
    /\ signaling.handles < MaxPolls
    /\ signaling' = poll([SigStep(signaling, "poll") EXCEPT !.timers = @ \ {h}], stopAt)

\* stopPolling() called between two polls
SigStopPolling ==
    /\ signaling' = stopPolling(SigStep(signaling, "stopPolling"))

SigFrame ==
    UNCHANGED <<relayVars, ftsVars, planVars, rtcVars, regVars, uploadVars, wcVars, peerVars,
                errors>>

SigInit ==
    /\ RelayIdle /\ FtsOff /\ PlanOff /\ RtcOff /\ RegOff /\ UploadOff /\ WcOff /\ PeerOff
    /\ ErrorsOff

\* the calls a message of a poll can be the stopAt-th of
StopAts == 0..(MaxCandidates + 1)

PollingNext ==
    \/ SigCreateSession /\ SigFrame
    \/ SigCloseSession /\ SigFrame
    \/ \E op \in {"storeOffer", "storeAnswer", "addCandidate"} : SigCall(op) /\ SigFrame
    \/ SigTick /\ SigFrame
    \/ \E isInitiator \in BOOLEAN, stopAt \in StopAts :
          SigStartPolling(isInitiator, stopAt) /\ SigFrame
    \/ \E h \in 1..MaxPolls, stopAt \in StopAts : SigPollFires(h, stopAt) /\ SigFrame
    \/ SigStopPolling /\ SigFrame

SpecPolling == SigInit /\ [][PollingNext]_vars

RateNext ==
    \/ SigCreateSession /\ SigFrame
    \/ SigCloseSession /\ SigFrame
    \/ \E op \in SigOps : SigCall(op) /\ SigFrame
    \/ SigTick /\ SigFrame

SpecRate == SigInit /\ [][RateNext]_vars

(***************************************************************************)
(* Relay desktop server: properties                                        *)
(***************************************************************************)
\* the step handled a parsed message from a client that was not authenticated
UnauthenticatedMessageStep ==
    /\ lastEvt'.kind = "message"
    /\ lastEvt'.type # "auth"
    /\ ~lastEvt'.wasAuthenticated

\* C1: a message other than 'auth' from a client that has not authenticated is
\* answered with the error 'Not authenticated' and nothing else (nothing at all
\* when its socket is no longer open), and the client's authenticated flag,
\* pendingFiles, sharedFiles, the saved files and the main window are untouched.
C1_UnauthenticatedRejected ==
    [][UnauthenticatedMessageStep =>
        /\ clients' = clients
        /\ pendingFiles' = pendingFiles
        /\ sharedFiles' = sharedFiles
        /\ savedFiles' = savedFiles
        /\ notified' = <<>>
        /\ sent' = IF lastEvt'.wasState = "OPEN"
                   THEN <<[to |-> lastEvt'.client, msg |-> ErrorMsg("Not authenticated")]>>
                   ELSE <<>>]_vars

\* C1 witness: an unauthenticated client's file-start was answered with the error
C1_Witness ==
    /\ lastEvt.kind = "message"
    /\ lastEvt.type = "file-start"
    /\ ~lastEvt.wasAuthenticated
    /\ lastEvt.wasState = "OPEN"
    /\ sent = <<[to |-> lastEvt.client, msg |-> ErrorMsg("Not authenticated")]>>
    /\ pendingFiles = EmptyMap

\* C2 (the claim as stated): once a wrong session code has made the server
\* close a socket, a message arriving from that socket changes neither the
\* client's authenticated flag nor the pending files, and notifies nobody.
C2_NothingProcessedAfterAuthFailed ==
    [][(lastEvt'.kind = "message" /\ lastEvt'.wasState = "CLOSING") =>
        /\ clients'[lastEvt'.client].authenticated = lastEvt'.wasAuthenticated
        /\ pendingFiles' = pendingFiles
        /\ notified' = <<>>]_vars

(***************************************************************************)
(* FileTransferService: properties                                         *)
(***************************************************************************)
\* the slot of a receiving buffer at a 0-based index
SlotAt(buffer, index) == IF index + 1 <= Len(buffer) THEN buffer[index + 1] ELSE Hole

\* the step was a receiveChunk for an id with a buffer, of a chunk whose
\* declared checksum is not the checksum of its bytes
MismatchedChunkStep ==
    /\ ret'.op = "receiveChunk"
    /\ ret'.id \in DOMAIN receivingBuffers
    /\ ret'.arg.checksum # computeChunkChecksum(ret'.arg.data)

\* C3: receiveChunk of a chunk whose declared checksum differs from the checksum
\* of its bytes, for a transfer id with a buffer, returns (does not throw) an ack
\* with success = false and the receiver's own checksum of the bytes, and leaves
\* the receiving buffers, the slot at chunk.index included, as they were.
C3_MismatchedChunkNotStored ==
    [][MismatchedChunkStep =>
        /\ ret'.outcome = "return"
        /\ ret'.value.success = FALSE
        /\ ret'.value.index = ret'.arg.index
        /\ ret'.value.checksum = computeChunkChecksum(ret'.arg.data)
        /\ receivingBuffers' = receivingBuffers
        /\ SlotAt(receivingBuffers'[ret'.id], ret'.arg.index)
              = SlotAt(receivingBuffers[ret'.id], ret'.arg.index)]_vars

\* C3 witness: a corrupted chunk for a started transfer was refused and its slot
\* is still empty
C3_Witness ==
    /\ ret.op = "receiveChunk"
    /\ ret.id \in DOMAIN receivingBuffers
    /\ ret.arg.data # <<>>
    /\ ret.arg.checksum # computeChunkChecksum(ret.arg.data)
    /\ ret.value.success = FALSE
    /\ SlotAt(receivingBuffers[ret.id], ret.arg.index) = Hole

\* the step was an acknowledgeChunk with success = false for an active transfer
FailedAckStep ==
    /\ ret'.op = "acknowledgeChunk"
    /\ ret'.arg.success = FALSE
    /\ ret'.id \in DOMAIN activeTransfers

\* C4: with maxRetries = 3, the failed acknowledgements of one chunk index (counted
\* from a fresh retry counter) return ok for the first three and the error
\* CHECKSUM_MISMATCH from the fourth on, and none of them changes currentChunk or
\* transferredBytes.
C4_RetryExhaustion ==
    [][FailedAckStep =>
        LET id == ret'.id
            n == failStreak'[id][ret'.arg.index]
        IN /\ ret'.outcome = "return"
           /\ n <= 3 => ret'.value.success
           /\ n >= 4 => ~ret'.value.success /\ ret'.value.code = "CHECKSUM_MISMATCH"
           /\ activeTransfers'[id].currentChunk = activeTransfers[id].currentChunk
           /\ activeTransfers'[id].transferredBytes = activeTransfers[id].transferredBytes]_vars

\* C4 witness: the fourth failed acknowledgement of chunk 0 in a row was answered
\* with CHECKSUM_MISMATCH and the cursor is still on chunk 0
C4_Witness ==
    /\ ret.op = "acknowledgeChunk"
    /\ ret.arg.success = FALSE
    /\ ret.arg.index = 0
    /\ ret.id \in DOMAIN activeTransfers
    /\ Streak(ret.id, 0) = 4
    /\ ret.value.code = "CHECKSUM_MISMATCH"
    /\ Len(activeTransfers[ret.id].chunks) > 0
    /\ activeTransfers[ret.id].currentChunk = 0
    /\ activeTransfers[ret.id].transferredBytes = 0

\* C5 (the claim as stated): a success acknowledgement for a chunk index that was
\* already acknowledged with success changes neither transferredBytes nor
\* currentChunk.
C5_RepeatedSuccessAckIdempotent ==
    [][(/\ ret'.op = "acknowledgeChunk"
        /\ ret'.arg.success
        /\ ret'.id \in DOMAIN activeTransfers
        /\ ret'.arg.index \in ackedOnce[ret'.id]) =>
        /\ activeTransfers'[ret'.id].currentChunk = activeTransfers[ret'.id].currentChunk
        /\ activeTransfers'[ret'.id].transferredBytes
              = activeTransfers[ret'.id].transferredBytes]_vars

RECURSIVE SumSizes(_)
SumSizes(plan) == IF Len(plan) = 0 THEN 0 ELSE Head(plan).size + SumSizes(Tail(plan))

\* what C6 says of a plan for fileSize bytes in chunks of chunkSize
PlanCovers(plan, fileSize, chunkSize) ==
    /\ Len(plan) = Ceil(fileSize, chunkSize)
    /\ Len(plan) * chunkSize >= fileSize
    /\ (Len(plan) - 1) * chunkSize < fileSize
    /\ \A k \in 1..Len(plan) :
          /\ plan[k].index = k - 1
          /\ plan[k].start = IF k = 1 THEN 0 ELSE plan[k - 1].end
          /\ plan[k].size = plan[k].end - plan[k].start
          /\ plan[k].size >= 1
          /\ plan[k].size <= chunkSize
    /\ plan[Len(plan)].end = fileSize
    /\ SumSizes(plan) = fileSize

\* C6: for fileSize >= 1 and chunkSize >= 1 the chunk plan has ceil(fileSize /
\* chunkSize) entries with indices 0..n-1, the first starts at 0, each starts
\* where the one before ends, every size is in 1..chunkSize and the sizes sum to
\* fileSize.
C6_PlanCoversFile ==
    planOut # <<>> => PlanCovers(planOut, planIn.fileSize, planIn.chunkSize)

\* C6 witness: 7 bytes in chunks of 3 are planned as [0,3) [3,6) [6,7)
C6_Witness ==
    /\ planIn = [fileSize |-> 7, chunkSize |-> 3]
    /\ planOut = <<[index |-> 0, start |-> 0, end |-> 3, size |-> 3],
                   [index |-> 1, start |-> 3, end |-> 6, size |-> 3],
                   [index |-> 2, start |-> 6, end |-> 7, size |-> 1]>>

AllSlotsFilled(buffer, n) == \A i \in 0..(n - 1) : SlotAt(buffer, i) # Hole

\* C8 (the claim as stated): completeReceiving returns a blob only when every
\* slot 0..totalChunks-1 of the buffer (totalChunks = ceil(metadata.size /
\* chunkSize)) is filled and the checksum of the concatenation is
\* expectedChecksum.
C8_BlobOnlyWhenComplete ==
    [][(ret'.op = "completeReceiving" /\ ret'.outcome = "return" /\ ret'.value.success) =>
        /\ ret'.id \in DOMAIN receivingBuffers
        /\ AllSlotsFilled(receivingBuffers[ret'.id],
                          Ceil(ret'.arg.size, config.chunkSizeBytes))
        /\ computeChecksum(ret'.value.data.bytes) = ret'.arg.checksum]_vars

\* C9 (the claim as stated): when completeReceiving has ended, however it ended,
\* receivingBuffers holds no buffer for its transfer id.
C9_BufferAlwaysFreed ==
    ret.op = "completeReceiving" => ret.id \notin DOMAIN receivingBuffers

\* C10: cancelTransfer(id) leaves neither a TransferContext nor a receiving buffer
\* for id, and receiveChunk for an id without a buffer (cancelled, or never
\* started) returns (does not throw) an ack with success = false, stores nothing
\* and creates no buffer.
C10_CancelThenLateChunk ==
    [][/\ ret'.op = "cancelTransfer" =>
            /\ ret'.id \notin DOMAIN activeTransfers'
            /\ ret'.id \notin DOMAIN receivingBuffers'
       /\ (ret'.op = "receiveChunk" /\ ret'.id \notin DOMAIN receivingBuffers) =>
            /\ ret'.outcome = "return"
            /\ ret'.value.success = FALSE
            /\ ret'.value.index = ret'.arg.index
            /\ receivingBuffers' = receivingBuffers]_vars

\* C10 witness: a correct chunk arrived for a transfer whose context and buffer
\* cancelTransfer had dropped, and was refused without a buffer coming back
C10_Witness ==
    /\ ret.op = "receiveChunk"
    /\ ret.id \in cancelled
    /\ ret.arg.checksum = computeChunkChecksum(ret.arg.data)
    /\ ret.value.success = FALSE
    /\ ret.id \notin DOMAIN receivingBuffers
    /\ ret.id \notin DOMAIN activeTransfers

(***************************************************************************)
(* WebRTCService: properties                                               *)
(***************************************************************************)
\* C11: send on an open data channel whose bufferedAmount is above 16 MiB returns
\* the error NETWORK_INTERRUPTED with recoverable = true, does not hand the data
\* to the channel and leaves the channel as it was; at 16 MiB or below, on an
\* open channel, the data is handed to the channel.
C11_BackpressureGuard ==
    [][(/\ rtcRet'.op = "send"
        /\ connection.exists /\ connection.hasChannel
        /\ connection.readyState = "open") =>
        IF connection.bufferedAmount > 16 * 1024 * 1024
        THEN /\ ~rtcRet'.success
             /\ rtcRet'.code = "NETWORK_INTERRUPTED"
             /\ rtcRet'.recoverable
             /\ ~rtcRet'.handed
             /\ connection' = connection
        ELSE rtcRet'.handed]_vars

\* C11 witness: a send was refused with the channel one byte above the limit,
\* after a send at exactly the limit had been taken
C11_Witness ==
    /\ rtcRet.op = "send"
    /\ connection.readyState = "open"
    /\ connection.bufferedAmount = 16 * 1024 * 1024 + 1
    /\ rtcRet.code = "NETWORK_INTERRUPTED"
    /\ rtcRet.recoverable
    /\ ~rtcRet.handed

(***************************************************************************)
(* Session registry: properties                                            *)
(***************************************************************************)
\* C12: a JOIN_SESSION whose code, in whatever letter case, is the upper-case code
\* a session is stored under finds that session: the joining socket becomes the
\* session's sender and is answered SESSION_JOINED with the stored code.
C12_CaseInsensitiveJoin ==
    [][(/\ regEvt'.kind = "message"
        /\ regEvt'.type = "JOIN_SESSION"
        /\ regEvt'.hasCode
        /\ ToUpperCase(regEvt'.code) \in DOMAIN sessions) =>
        LET stored == ToUpperCase(regEvt'.code)
            w == regEvt'.socket
        IN /\ stored \in DOMAIN sessions'
           /\ sessions'[stored].sender = w
           /\ regSent'[1] = RegMsg(w, "SESSION_JOINED", stored, <<>>)
           /\ sockets'[w].currentSession = stored
           /\ sockets'[w].role = "sender"]_vars

\* C12 witness: the session created as "AB3XYZ" was joined as "ab3xyz" by another
\* socket
C12_Witness ==
    /\ regEvt.kind = "message"
    /\ regEvt.type = "JOIN_SESSION"
    /\ regEvt.code = "ab3xyz"
    /\ "AB3XYZ" \in DOMAIN sessions
    /\ sessions["AB3XYZ"].sender = regEvt.socket
    /\ sessions["AB3XYZ"].receiver # regEvt.socket
    /\ regSent[1] = RegMsg(regEvt.socket, "SESSION_JOINED", "AB3XYZ", <<>>)

\* the socket is one the close handler would find open
OpenPeer(v, closing) == v # 0 /\ v # closing /\ IsOpen(v)

\* C14 (the claim as stated): when a socket closes, every session it created (the
\* sessions whose receiver it is) is removed from the registry in that step, so
\* that a JOIN_SESSION with its code finds nothing, and the session's sender, if
\* its socket is open, is sent RECEIVER_DISCONNECTED.
C14_ReceiverCloseDeletesSession ==
    [][regEvt'.kind = "close" =>
        \A c \in DOMAIN sessions :
            sessions[c].receiver = regEvt'.socket =>
                /\ c \notin DOMAIN sessions'
                /\ OpenPeer(sessions[c].sender, regEvt'.socket) =>
                      \E i \in 1..Len(regSent') :
                          regSent'[i] = RegMsg(sessions[c].sender, "RECEIVER_DISCONNECTED",
                                               "", <<>>)]_vars

\* C15 (the claim as stated): when a socket closes, every session whose sender it
\* is stays in the registry with its sender set to null and nothing else changed,
\* and the session's receiver, if its socket is open, is sent SENDER_DISCONNECTED.
C15_SenderCloseKeepsSession ==
    [][regEvt'.kind = "close" =>
        \A c \in DOMAIN sessions :
            sessions[c].sender = regEvt'.socket =>
                /\ c \in DOMAIN sessions'
                /\ sessions'[c] = [sessions[c] EXCEPT !.sender = 0]
                /\ OpenPeer(sessions[c].receiver, regEvt'.socket) =>
                      \E i \in 1..Len(regSent') :
                          regSent'[i] = RegMsg(sessions[c].receiver, "SENDER_DISCONNECTED",
                                               "", <<>>)]_vars

(***************************************************************************)
(* Relay upload end to end: properties                                     *)
(***************************************************************************)
\* the file-complete messages for the upload among the messages of a step
FileCompletes(msgs) ==
    {i \in 1..Len(msgs) : /\ msgs[i].to = UploadClient
                          /\ msgs[i].msg.type = "file-complete"
                          /\ msgs[i].msg.fileId = upload.fileId}

\* C13: an authenticated client that sends file-start, the ceil(size / chunkSize)
\* chunks of a file of size >= 1 in index order and file-end gets no
\* file-complete before the file-end and exactly one for it; the file saved is
\* the file's bytes (the chunks in index order, as long as the file), and the
\* pending entry of the fileId is gone.
C13_UploadEndToEnd ==
    /\ upload.pc \in {"connect", "auth", "start", "chunk", "end"} =>
          /\ upload.completedTransfers = <<>>
          /\ FileCompletes(sent) = {}
    /\ upload.pc \in {"chunk", "end"} /\ upload.chunkIndex > 0 =>
          LET k == upload.chunkIndex
              last == k = Ceil(Len(upload.file), upload.chunkSize)
              chunk == SubSeq(upload.file, (k - 1) * upload.chunkSize + 1,
                              IF last THEN Len(upload.file) ELSE k * upload.chunkSize)
          IN /\ pendingFiles[upload.fileId].chunks[k] = Filled(chunk)
             /\ Len(chunk) = IF last THEN Len(upload.file) - (k - 1) * upload.chunkSize
                             ELSE upload.chunkSize
    /\ upload.pc = "done" =>
          /\ Cardinality(FileCompletes(sent)) = 1
          /\ Len(upload.completedTransfers) = 1
          /\ savedFiles[Len(savedFiles)].name = upload.completedTransfers[1]
          /\ savedFiles[Len(savedFiles)].data = upload.file
          /\ Len(savedFiles[Len(savedFiles)].data) = Len(upload.file)
          /\ upload.fileId \notin DOMAIN pendingFiles

\* C13 witness: five bytes at chunk size 2 went up as chunks of 2, 2 and 1 bytes
\* and were saved next to an older file of the same name
C13_Witness ==
    /\ upload.pc = "done"
    /\ upload.file = <<65, 66, 66, 65, 66>>
    /\ upload.chunkSize = 2
    /\ upload.chunkIndex = 3
    /\ Len(savedFiles) = 2
    /\ savedFiles[2].data = <<65, 66, 66, 65, 66>>
    /\ savedFiles[2].name = [base |-> "a.txt", suffix |-> <<1>>]

(***************************************************************************)
(* Web client: properties                                                  *)
(***************************************************************************)
\* C16: auth-success moves the page to 'connected' and auth-failed to 'error';
\* from 'error' no message and no socket event changes the state, opens a socket
\* or schedules a reconnect.
C16_ErrorIsTerminal ==
    [][/\ (wcEvt'.kind = "message" /\ wcEvt'.type = "auth-success") =>
              connectionState' = "connected"
       /\ (wcEvt'.kind = "message" /\ wcEvt'.type = "auth-failed") =>
              connectionState' = "error"
       /\ connectionState = "error" =>
              /\ connectionState' = "error"
              /\ ws'.n = ws.n
              /\ reconnectTimeout' = FALSE]_vars

\* C16 witness: the page went to 'error' on auth-failed after a reconnect, and
\* the close of that socket left it there with no timer
C16_Witness ==
    /\ connectionState = "error"
    /\ everConnected
    /\ ws.replied = "auth-failed"
    /\ ws.readyState = "CLOSED"
    /\ wcEvt.kind = "close"
    /\ ~reconnectTimeout

\* C17 (the claim as stated): a socket close while the page is 'connected' moves
\* it to 'disconnected' and leaves one reconnect timer pending; a close when the
\* page has never been 'connected' schedules none; the timer opens a new socket,
\* which sends auth with the same session code when it opens.
C17_ReconnectRule ==
    [][/\ (wcEvt'.kind = "close" /\ connectionState = "connected") =>
              /\ connectionState' = "disconnected"
              /\ reconnectTimeout'
       /\ (wcEvt'.kind = "close" /\ ~everConnected) =>
              /\ ~reconnectTimeout'
              /\ connectionState' = connectionState
       /\ wcEvt'.kind = "reconnect" =>
              /\ ws'.n = ws.n + 1
              /\ ws'.readyState = "CONNECTING"
       /\ wcEvt'.kind = "open" => ws'.authSent = sessionCode]_vars

(***************************************************************************)
(* PeerService: properties                                                 *)
(***************************************************************************)
\* C18: sending transfer-end leaves the call of sendFiles waiting with its 5 s
\* timer pending; while it waits, a transfer-ack completes it, its timer
\* completes it, and no step makes it fail; it never waits without its timer.
C18_AckOrTimeout ==
    [][/\ peerEvt'.kind = "transfer-end" => sendCall'.pc = "waiting"
       /\ sendCall.pc = "waiting" =>
              /\ sendCall'.pc \in {"waiting", "done"}
              /\ peerEvt'.kind = "ack" => sendCall'.pc = "done"
              /\ (peerEvt'.kind = "timeout" /\ peerEvt'.n = sendCall.n) =>
                     sendCall'.pc = "done"
       /\ sendCall'.pc = "waiting" => sendCall'.n \in ackTimers']_vars

\* C18 witness: the remote peer sent no acknowledgement, and the second call
\* completed when its own timer fired
C18_Witness ==
    /\ sendCall.pc = "done"
    /\ sendCall.n = 2
    /\ sendCall.files = 2
    /\ peerEvt = PeerEvt("timeout", 2)
    /\ transferAckResolver
    /\ fromPeer = <<>>

(***************************************************************************)
(* Relay desktop server: the session code                                  *)
(***************************************************************************)
\* C19 (the claim as stated): an 'auth' message whose session code equals the
\* valid one up to letter case authenticates the client, and is answered with
\* auth-success when its socket is open.
C19_CaseInsensitiveAuth ==
    [][(/\ lastEvt'.kind = "message"
        /\ lastEvt'.type = "auth"
        /\ ToUpperCase(lastEvt'.sessionCode) = ToUpperCase(validSessionCode)) =>
           /\ clients'[lastEvt'.client].authenticated
           /\ lastEvt'.wasState = "OPEN" =>
                  /\ sent' # <<>>
                  /\ sent'[1] = [to |-> lastEvt'.client,
                                 msg |-> Msg("auth-success", "", "", 0, {}, NoName)]]_vars

(***************************************************************************)
(* TransferError values: properties                                        *)
(***************************************************************************)
\* C20: every error produced with code FILE_TOO_LARGE, INVALID_FILE_TYPE or
\* CHECKSUM_MISMATCH (retries exhausted, whole-file mismatch) has recoverable =
\* false, and every error produced with code NETWORK_INTERRUPTED or RATE_LIMITED
\* has recoverable = true.
C20_RecoverablePolicy ==
    \A i \in DOMAIN errors :
        /\ errors[i].code \in {"FILE_TOO_LARGE", "INVALID_FILE_TYPE", "CHECKSUM_MISMATCH"} =>
               ~errors[i].recoverable
        /\ errors[i].code \in {"NETWORK_INTERRUPTED", "RATE_LIMITED"} =>
               errors[i].recoverable

\* C20 witness: a chunk's retries ran out in FileTransferService (not
\* recoverable), then WebRTCService refused a send on a full buffer (recoverable)
C20_Witness ==
    /\ Len(errors) = 2
    /\ errors[1] = [service |-> "FileTransferService", line |-> 567,
                    code |-> "CHECKSUM_MISMATCH", recoverable |-> FALSE]
    /\ errors[2] = [service |-> "WebRTCService", line |-> 481,
                    code |-> "NETWORK_INTERRUPTED", recoverable |-> TRUE]

(***************************************************************************)
(* FileTransferService: validation and prepareTransfer, properties         *)
(***************************************************************************)
\* C21: prepareTransfer of a file validateFile accepts stores, under an id not
\* in use, a context for that file with currentChunk 0, transferredBytes 0 and
\* no retry counter, and leaves the other contexts alone; prepareTransfer of a
\* file validateFile rejects returns that FILE_TOO_LARGE or INVALID_FILE_TYPE
\* error and leaves activeTransfers unchanged.
C21_PreparedIffValid ==
    [][\A id \in ValidateIds, file \in ValidatedFiles :
          prepareTransfer(id, file) =>
              IF validateFile(file).success
              THEN /\ ret'.value = Ok(id)
                   /\ id \notin DOMAIN activeTransfers
                   /\ DOMAIN activeTransfers' = DOMAIN activeTransfers \cup {id}
                   /\ \A other \in DOMAIN activeTransfers :
                          activeTransfers'[other] = activeTransfers[other]
                   /\ activeTransfers'[id].file = file
                   /\ activeTransfers'[id].currentChunk = 0
                   /\ activeTransfers'[id].transferredBytes = 0
                   /\ activeTransfers'[id].retryCount = EmptyMap
              ELSE /\ ret'.value = validateFile(file)
                   /\ ret'.value.code \in {"FILE_TOO_LARGE", "INVALID_FILE_TYPE"}
                   /\ activeTransfers' = activeTransfers]_vars

\* C21 witness: with one transfer prepared, a file of a type the allow-list
\* does not admit was refused and the prepared transfer is still the only one
C21_Witness ==
    /\ ret.op = "prepareTransfer"
    /\ ret.value = Err("INVALID_FILE_TYPE")
    /\ DOMAIN activeTransfers = {"t1"}
    /\ activeTransfers["t1"].file = [data |-> <<0, 1>>, type |-> "image/png"]
    /\ config.allowedMimeTypes = {"image/png"}

\* C22: whatever the order in which the chunks of a file were passed to
\* receiveChunk, and whatever the order in which overlapping calls finished,
\* completeReceiving returns the blob of the file's bytes in index order, the
\* blob in-order arrival gives.
C22_AnyArrivalOrder ==
    (pc.step = "done") =>
        /\ ret.op = "completeReceiving"
        /\ ret.outcome = "return"
        /\ ret.value = Ok([bytes |-> activeTransfers[ArrivalId].file.data,
                           type |-> activeTransfers[ArrivalId].metadata.type])
        /\ ret.value.data.bytes = Combine([k \in 1..Len(activeTransfers[ArrivalId].chunks) |->
                                              Filled(CorrectChunk(k - 1).data)])

\* C22 witness: the three chunks of a file were passed last index first, the
\* calls returned in yet another order, and the blob is the file
C22_Witness ==
    /\ pc.step = "done"
    /\ pc.begun = <<2, 1, 0>>
    /\ pc.returned = <<1, 2, 0>>
    /\ config.chunkSizeBytes = 1
    /\ ret.op = "completeReceiving"
    /\ ret.value.success
    /\ ret.value.data.bytes = <<0, 1, 1>>

(***************************************************************************)
(* FileTransferService: the sender's cursor, properties                    *)
(***************************************************************************)
\* C23: after every call the currentChunk of every context is at most
\* chunks.length (success acknowledgements arriving after the last chunk was
\* acknowledged included), and getNextChunk for a context whose currentChunk is
\* chunks.length returns ok(null).
C23_CursorBounded ==
    [][/\ \A id \in DOMAIN activeTransfers' :
              activeTransfers'[id].currentChunk <= Len(activeTransfers'[id].chunks)
       /\ (/\ ret'.op = "getNextChunk"
           /\ ret'.id \in DOMAIN activeTransfers
           /\ activeTransfers[ret'.id].currentChunk
                 = Len(activeTransfers[ret'.id].chunks)) =>
              /\ ret'.outcome = "return"
              /\ ret'.value = Ok({})]_vars

\* C23 witness: both chunks of a file were acknowledged, and one more success
\* acknowledgement left the cursor at chunks.length
C23_Witness ==
    /\ "t1" \in DOMAIN activeTransfers
    /\ Len(activeTransfers["t1"].chunks) = 2
    /\ activeTransfers["t1"].currentChunk = 2
    /\ ret.op = "acknowledgeChunk"
    /\ ret.arg.success
    /\ ret.outcome = "throw"

\* C24: a failed acknowledgement for an index whose retry counter is below
\* maxRetries returns ok and changes the context in one place, that index's
\* counter, which goes up by one (currentChunk and transferredBytes stay); and
\* getNextChunk returns the chunk at currentChunk, so the chunk sent before the
\* failed acknowledgement is the one returned after it.
C24_FailedAckKeepsCursor ==
    [][/\ (/\ FailedAckStep
           /\ (ret'.arg.index \in DOMAIN activeTransfers[ret'.id].retryCount =>
                  activeTransfers[ret'.id].retryCount[ret'.arg.index] < config.maxRetries)) =>
              LET id == ret'.id
                  index == ret'.arg.index
                  counters == activeTransfers[id].retryCount
                  before == IF index \in DOMAIN counters THEN counters[index] ELSE 0
              IN /\ ret'.outcome = "return"
                 /\ ret'.value = Ok(<<>>)
                 /\ activeTransfers' =
                        [activeTransfers EXCEPT ![id].retryCount = MapSet(@, index, before + 1)]
                 /\ activeTransfers'[id].currentChunk = activeTransfers[id].currentChunk
                 /\ activeTransfers'[id].transferredBytes = activeTransfers[id].transferredBytes
       /\ (/\ ret'.op = "getNextChunk"
           /\ ret'.id \in DOMAIN activeTransfers
           /\ activeTransfers[ret'.id].currentChunk < Len(activeTransfers[ret'.id].chunks)) =>
              LET context == activeTransfers[ret'.id]
                  chunkInfo == context.chunks[context.currentChunk + 1]
              IN /\ ret'.value.success
                 /\ \A chunk \in ret'.value.data :
                        /\ chunk.index = context.currentChunk
                        /\ chunk.data = Slice(context.file.data, chunkInfo.start, chunkInfo.end)
                 /\ ret'.value.data # {}
                 /\ activeTransfers' = activeTransfers]_vars

\* C24 witness: with chunk 0 acknowledged, the second failed acknowledgement of
\* chunk 1 raised its counter to 2 and left the cursor on chunk 1
C24_Witness ==
    /\ ret.op = "acknowledgeChunk"
    /\ ret.arg.success = FALSE
    /\ ret.arg.index = 1
    /\ ret.value.success
    /\ ret.id \in DOMAIN activeTransfers
    /\ activeTransfers[ret.id].retryCount = MapSet(EmptyMap, 1, 2)
    /\ activeTransfers[ret.id].currentChunk = 1
    /\ activeTransfers[ret.id].transferredBytes = 1
    /\ Len(activeTransfers[ret.id].chunks) = 3

(***************************************************************************)
(* Relay desktop server: completion of an upload, properties               *)
(***************************************************************************)
\* C25 (the claim as stated): a step writes a file or sends file-complete only
\* for a pending file whose totalChunks slots have all been filled by a
\* file-chunk.
C25_CompleteOnlyWhenAllChunks ==
    [][(\/ Len(savedFiles') > Len(savedFiles)
        \/ \E i \in 1..Len(sent') : sent'[i].msg.type = "file-complete") =>
           \E fileId \in DOMAIN pendingFiles :
               /\ fileId \notin DOMAIN pendingFiles'
               /\ AllSlotsFilled(pendingFiles[fileId].chunks,
                                 pendingFiles[fileId].totalChunks)]_vars

(***************************************************************************)
(* WebRTCService: properties                                               *)
(***************************************************************************)
\* C26: a TIMEOUT error is reported only for an attempt that has not reached
\* CONNECTED: when a connection timer expires, neither the attempt that armed it nor
\* the connection the service holds (the one handleError releases) has reached
\* CONNECTED.
C26_NoTimeoutOnceConnected ==
    [][\A a \in Attempts : ConnectionTimeoutFires(a) =>
          /\ a \notin rtc.reached
          /\ rtc.state # "CONNECTED"]_vars

Occurrences(seq, v) == Cardinality({i \in 1..Len(seq) : seq[i] = v})

\* C28: what a call of sendFiles has emitted is always a beginning of
\* transfer-start, then per file file-start, its chunks by increasing index and
\* file-end, then transfer-end; the receiver stores every chunk it handles in an
\* existing entry; and when it handles transfer-end it has delivered
\* onFileComplete for every file, delivers onTransferComplete last and once, and
\* sends one transfer-ack.
C28_OrderedTransfer ==
    [][/\ IsPrefix(direct'.emitted, AllMessages(direct'.files))
       /\ (ReceiverOnData /\ Head(direct.channel).type = "chunk") => direct'.last.stored
       /\ (ReceiverOnData /\ Head(direct.channel).type = "transfer-end") =>
              /\ Occurrences(direct'.events, "onFileComplete")
                     = Head(direct.channel).totalChunks
              /\ direct'.events[Len(direct'.events)] = "onTransferComplete"
              /\ Occurrences(direct'.events, "onTransferComplete") = 1
              /\ direct'.last.acked = 1]_vars

(***************************************************************************)
(* Session registry: expiry                                                *)
(***************************************************************************)
\* C29: a run of the sweep deletes exactly the sessions created more than the
\* time-to-live ago, with or without a sender, and keeps the others as they are;
\* handling JOIN_SESSION, SEND_FILES, FILE_CHUNK or CHUNK_ACK deletes no session and
\* leaves every createdAt as it was.
C29_AbsoluteAge ==
    [][/\ regEvt'.kind = "sweep" =>
              /\ DOMAIN sessions' =
                     {c \in DOMAIN sessions : now - sessions[c].createdAt <= SessionTtl}
              /\ \A c \in DOMAIN sessions' : sessions'[c] = sessions[c]
       /\ (/\ regEvt'.kind = "message"
           /\ regEvt'.type \in {"JOIN_SESSION", "SEND_FILES", "FILE_CHUNK", "CHUNK_ACK"}) =>
              /\ DOMAIN sessions' = DOMAIN sessions
              /\ \A c \in DOMAIN sessions : sessions'[c].createdAt = sessions[c].createdAt]_vars

\* C29 (witness): the sweep has just deleted a session whose receiver and sender
\* are both still connected to it
C29_Witness ==
    /\ regEvt.kind = "sweep"
    /\ \E code \in SweepCodes, r \in SocketIds, s \in SocketIds :
          /\ code \notin DOMAIN sessions
          /\ IsOpen(r) /\ sockets[r].role = "receiver" /\ sockets[r].currentSession = code
          /\ IsOpen(s) /\ sockets[s].role = "sender" /\ sockets[s].currentSession = code

(***************************************************************************)
(* FileTransferService: the MIME allow-list                                *)
(***************************************************************************)
\* C30: for a file within the size limit, validation (as prepareTransfer returns
\* it) fails with INVALID_FILE_TYPE when the file's MIME type is neither in
\* allowedMimeTypes nor matched by a 'type/*' entry of it, under the shipped list
\* as under any other, and succeeds when the type is in the list.
C30_MimeAllowList ==
    [][\A id \in ValidateIds, file \in ValidatedFiles :
          (prepareTransfer(id, file) /\ Len(file.data) <= config.maxSizeBytes) =>
              LET mimeType == IF file.type = "" THEN "application/octet-stream"
                              ELSE file.type
                  listed == mimeType \in config.allowedMimeTypes
                  matched == Wildcard(mimeType) \in config.allowedMimeTypes
              IN /\ (~listed /\ ~matched) => ret'.value = Err("INVALID_FILE_TYPE")
                 /\ listed => ret'.value.success]_vars

(***************************************************************************)
(* FileTransferService: progress accounting                                *)
(***************************************************************************)
\* C31: in every active transfer, transferredBytes is the sum of the sizes of the
\* chunks below currentChunk, so it lies between 0 and metadata.size.
C31_ProgressAccounting ==
    \A id \in DOMAIN activeTransfers :
        LET context == activeTransfers[id]
        IN /\ context.currentChunk \in 0..Len(context.chunks)
           /\ context.transferredBytes = SumSizes(SubSeq(context.chunks, 1, context.currentChunk))
           /\ context.transferredBytes >= 0
           /\ context.transferredBytes <= context.metadata.size

\* C31 (witness): a file whose last chunk is shorter than the others has been
\* acknowledged to its end
C31_Witness ==
    \E id \in DOMAIN activeTransfers :
        LET context == activeTransfers[id]
        IN /\ Len(context.chunks) >= 2
           /\ context.currentChunk = Len(context.chunks)
           /\ context.chunks[Len(context.chunks)].size < context.chunks[1].size
           /\ context.transferredBytes = context.metadata.size
           /\ ret.op = "acknowledgeChunk"

(***************************************************************************)
(* Relay desktop server: what a client that has not authenticated is sent  *)
(***************************************************************************)
\* the messages the last step sent to a client whose authenticated flag is false
SentToUnauthenticated ==
    {i \in 1..Len(sent) :
        sent[i].to \in DOMAIN clients /\ ~clients[sent[i].to].authenticated}

\* C32: a client whose authenticated flag is false is sent nothing but
\* auth-failed and error: no available-files, file-ready, file-start-ack,
\* file-chunk-ack, file-complete or pong reaches it, whether the step answers a
\* message of a client or is the broadcast of shareFile to the clients.
C32_OnlyErrorsToUnauthenticated ==
    /\ \A i \in SentToUnauthenticated : sent[i].msg.type \in {"auth-failed", "error"}
    /\ \A i \in 1..Len(sent) : sent[i].to \in DOMAIN clients

\* C32 witness: shareFile broadcast the file list while one open client was
\* authenticated and another was not; the list went to the first one only
C32_Witness ==
    /\ lastEvt.kind = "shareFile"
    /\ \E c \in DOMAIN clients : ~clients[c].authenticated /\ clients[c].readyState = "OPEN"
    /\ \E i \in 1..Len(sent) : sent[i].msg.type = "available-files"
    /\ SentToUnauthenticated = {}

(***************************************************************************)
(* Relay desktop server: the pending upload of a fileId and its client     *)
(***************************************************************************)
\* the client c sends a file-start, file-chunk or file-end that names a
\* pending upload another client's file-start created
ForeignUploadMessage(c, fileId) ==
    /\ lastEvt'.kind = "message"
    /\ lastEvt'.client = c
    /\ lastEvt'.type \in {"file-start", "file-chunk", "file-end"}
    /\ fileId \in DOMAIN pendingFiles
    /\ pendingFiles[fileId].owner # c

\* C33 (the claim as stated): the pending upload of a fileId is changed only by
\* messages of the client whose file-start created it, and it is gone once that
\* client has disconnected: a step that handles a message of another client
\* leaves the entry as it was, and after the 'close' of a client no pending
\* upload it created remains.
C33_UploadIsolation ==
    [][/\ \A c \in ClientIds, fileId \in FileIds :
              ForeignUploadMessage(c, fileId) =>
                  /\ fileId \in DOMAIN pendingFiles'
                  /\ pendingFiles'[fileId] = pendingFiles[fileId]
       /\ \A c \in ClientIds :
              OnClose(c) =>
                  \A fileId \in DOMAIN pendingFiles' : pendingFiles'[fileId].owner # c]_vars

(***************************************************************************)
(* Session registry: successive senders, properties                        *)
(***************************************************************************)
\* the socket w, whose connection handler holds role 'sender' and the code of a
\* session of the registry, gets its 'close' event
JoinedSenderCloses(w, code) ==
    /\ regEvt'.kind = "close"
    /\ regEvt'.socket = w
    /\ w \in DOMAIN sockets
    /\ sockets[w].role = "sender"
    /\ sockets[w].currentSession = code
    /\ code \in DOMAIN sessions

\* C34 (the claim as stated): when a socket that joined a session as sender
\* closes, the session's sender reference is cleared only if it still refers to
\* that socket; a socket that joined the same code in the meantime stays the
\* session's sender (the reference FILES_ACCEPTED and CHUNK_ACK are forwarded to).
C34_CloseClearsOwnSenderOnly ==
    [][\A w \in JoinSockets, code \in JoinRunCodes :
          (JoinedSenderCloses(w, code) /\ sessions[code].sender # w) =>
              /\ code \in DOMAIN sessions'
              /\ sessions'[code].sender = sessions[code].sender]_vars

\* C35 (the claim as stated): a FILE_CHUNK, FILE_COMPLETE or TRANSFER_COMPLETE is
\* delivered to a session's receiver only if the socket that sent it is the one
\* registered as that session's sender: not when the receiver itself sent it,
\* and not when a later JOIN_SESSION has replaced the socket as sender.
C35_ForwardedFromCurrentSenderOnly ==
    [][(/\ regEvt'.kind = "message"
        /\ regEvt'.type \in {"FILE_CHUNK", "FILE_COMPLETE", "TRANSFER_COMPLETE"}) =>
           \A i \in 1..Len(regSent') :
               \E code \in DOMAIN sessions :
                   /\ sessions[code].sender = regEvt'.socket
                   /\ sessions[code].receiver = regSent'[i].to]_vars

(***************************************************************************)
(* Session registry: the sessions a closing receiver owns, properties      *)
(***************************************************************************)
\* C36 (the claim as stated): when a socket closes, the sessions removed from
\* the registry are exactly those whose receiver is that socket: none of the
\* sessions it created stays, and no session with another receiver is removed.
C36_CloseRemovesOwnSessionsOnly ==
    [][\A w \in SocketIds :
          RegOnClose(w) =>
              DOMAIN sessions' = {c \in DOMAIN sessions : sessions[c].receiver # w}]_vars

(***************************************************************************)
(* PeerService: which acknowledgement ends the wait, properties            *)
(***************************************************************************)
\* C37 (the claim as stated): the wait at the end of a call of sendFiles is ended
\* by a transfer-ack only if that ack answers the call's own transfer-end: the
\* ack of an earlier transfer, whose wait timed out, never ends a later wait.
C37_AckOfOwnTransferEnd ==
    [][(/\ peerEvt'.kind = "ack"
        /\ sendCall.pc = "waiting"
        /\ sendCall'.pc = "done") =>
           Head(fromPeer).call = sendCall.n]_vars

(***************************************************************************)
(* SignalingService: properties                                            *)
(***************************************************************************)
\* C38 (the claim as stated): once stopPolling() has been called, no poll is
\* scheduled and onMessage is not invoked again for that polling run, also when
\* stopPolling is called by the onMessage callback of a poll that is executing.
C38_StoppedPollingStaysStopped ==
    /\ ~signaling.lateTimer
    /\ ~signaling.lateMessage
    /\ signaling.stopped => signaling.timers = {}

\* the operations the rate limit accepted in the second that ends now
AcceptedInWindow(s) ==
    Cardinality({i \in 1..Len(s.accepted) : s.now - s.accepted[i] < RateWindow})

\* C40: in any second at most maxRequestsPerSecond of the operations storeOffer,
\* getOffer, storeAnswer, getAnswer, addCandidate, getCandidates are accepted;
\* an operation called when that many were accepted within the second returns
\* RATE_LIMITED and leaves the sessions (offer, answer, candidates,
\* lastActivity) as they were, and no other operation returns RATE_LIMITED.
C40_RateLimit ==
    [][/\ AcceptedInWindow(signaling') <= maxRequestsPerSecond
       /\ \A op \in SigOps :
              SigCall(op) =>
                  IF AcceptedInWindow(signaling) >= maxRequestsPerSecond
                  THEN /\ signaling'.ret = [op |-> op, code |-> "RATE_LIMITED"]
                       /\ signaling'.sessions = signaling.sessions
                       /\ signaling'.accepted = signaling.accepted
                  ELSE /\ signaling'.ret.code # "RATE_LIMITED"
                       /\ signaling'.accepted = Append(signaling.accepted, signaling.now)]_vars

\* C40 witness: with maxRequestsPerSecond operations accepted in the second, a
\* storeAnswer on a session without an answer was refused and stored nothing;
\* the oldest of the accepted operations is of the tick before
C40_Witness ==
    /\ signaling.ret = [op |-> "storeAnswer", code |-> "RATE_LIMITED"]
    /\ SigSessionId \in DOMAIN signaling.sessions
    /\ signaling.sessions[SigSessionId].answer = 0
    /\ signaling.sessions[SigSessionId].offer = 1
    /\ AcceptedInWindow(signaling) = maxRequestsPerSecond
    /\ signaling.now = 2
    /\ signaling.accepted[1] = 1

(***************************************************************************)
(* Web client: progress, properties                                        *)
(***************************************************************************)
\* C39 (the claim as stated): when every connection attempt authenticates or
\* ends with a socket close, a page that is 'connecting' or 'disconnected'
\* (and has not used up the sockets of the run) eventually is 'connected' or
\* in 'error'.
C39_LeavesConnectingAndDisconnected ==
    (connectionState \in {"connecting", "disconnected"} /\ ws.n < MaxWcSockets)
        ~> (connectionState \in {"connected", "error"} \/ ws.n = MaxWcSockets)

====
